---- MODULE Spec2Model ----
(***************************************************************************)
(* Model of the GPUJobSystem job recorder (src/src/Job.cpp, Job.h), its    *)
(* dependency tracker, and the parts of JobManager and of the device that  *)
(* the recorder relies on.                                                 *)
(*                                                                         *)
(* A job is a record; every Job method is an operator from the job record  *)
(* (and the memory it touches) to the new record, and one action applies   *)
(* it.  The command buffer is the sequence of recorded vkCmd* calls.  The  *)
(* device executes an enqueued command buffer in recording order; a read   *)
(* that no recorded barrier separates from an earlier write of the same    *)
(* memory may return the value from before that write.                     *)
(***************************************************************************)
EXTENDS Integers, Sequences, FiniteSets, TLC

VARIABLES
    jobs,       \* JobIds -> job record (the fields of class Job)
    layout,     \* image -> layout tracked on the Image object (host side)
    deviceLayout, \* image -> layout the image is in on the device
    mem,        \* device / host-visible memory of every buffer and image
    host,       \* host arrays passed as data pointers
    inFlight,   \* jobs enqueued on the compute queue and not yet executed
    lastOp,     \* the step taken last: [job, op, ...arguments]
    res,        \* outcome of the last call: "ok", "true", "false" or an error kind
    trace,      \* host-side and queue calls made by the last call, in order
    script,     \* JobIds -> the recording calls accepted so far, in order
    manager     \* the handles JobManager tracks for teardown, and those destroyed

vars == <<jobs, layout, deviceLayout, mem, host, inFlight, lastOp, res, trace, script,
          manager>>

----------------------------------------------------------------------------
(* Bounds of the model *)

MaxOps == 2         \* recording calls per job in Spec
MaxSubmits == 2     \* submit calls per job
MaxRoundTripOps == 2   \* recording calls per job in SpecRoundTrip
MaxCopyOps == 3        \* recording calls per job in SpecCopy and SpecResubmit
MaxDepOps == 3         \* recording calls per job in SpecDep
MaxTrackOps == 3       \* recording calls per job in SpecTrack
MaxBindOps == 4        \* recording calls per job in SpecBind
MaxLayoutOps == 3      \* recording calls per job in SpecLayout
MaxImageOps == 3       \* recording calls per job in SpecImage
MaxExternalOps == 2    \* recording calls per job in SpecExternal
MaxDefaultOps == 2     \* recording calls per job in SpecDefault
MaxSizeOps == 2        \* recording calls per job in SpecSize
MaxLiveOps == 2        \* recording calls per job in SpecLive
MaxSignalOps == 2      \* recording calls per job in SpecSignal
MaxAliasOps == 3       \* recording calls per job in SpecAlias
MaxShareOps == 1       \* recording calls per job in SpecShare
MaxShadowOps == 3      \* recording calls per job in SpecShadow
MaxAwaitOps == 2       \* recording calls per job in SpecAwait
MaxTeardownOps == 2    \* tasks and resource sets created in SpecTeardown
MaxWaitOps == 3        \* recording calls per job in SpecWait
MaxBarrierOps == 3     \* recording calls per job in SpecBarrier
MaxTwoJobOps == 2      \* recording calls per job in SpecTwoJobs
MaxStageOps == 3       \* recording calls per job in SpecStages
MaxDupOps == 3         \* recording calls per job in SpecDup
MaxMixedOps == 3       \* recording calls per job in SpecMixed
MaxHostVisibleOps == 3 \* recording calls per job in SpecHostVisible
MaxPushOps == 4        \* recording calls per job in SpecPush

----------------------------------------------------------------------------
(* Program constants *)

None == 0
Read == 1
Write == 2

\* size_t size = UINT64_MAX default argument; any value above every resource size
\* behaves alike under std::min, so the model keeps a small stand-in.
UINT64_MAX == 99

NULL == "null"

\* AccessTypeFlags is a uint8_t bit set over {Read, Write}
BitOr(a, b) ==
    (IF a % 2 = 1 \/ b % 2 = 1 THEN 1 ELSE 0)
  + (IF (a \div 2) % 2 = 1 \/ (b \div 2) % 2 = 1 THEN 2 ELSE 0)

BitAnd(a, b) ==
    (IF a % 2 = 1 /\ b % 2 = 1 THEN 1 ELSE 0)
  + (IF (a \div 2) % 2 = 1 /\ (b \div 2) % 2 = 1 THEN 2 ELSE 0)

Min(a, b) == IF a <= b THEN a ELSE b

----------------------------------------------------------------------------
(* Resources: what JobManager::createBuffer / createImage return *)

BufSize == 2        \* byte size of every buffer of the model
ImgWidth == 1
ImgHeight == 1

Byte == {0, 1}

DeviceLocalBuffers == {"D1", "D2"}
StagingBuffers == {"S1", "S2"}
UniformBuffers == {"U1"}
Images == {"I1", "I2"}
Buffers == DeviceLocalBuffers \cup StagingBuffers \cup UniformBuffers
ResourceIds == Buffers \cup Images

\* name of the staging shadow a resource gets at creation
StagingName(id) ==
    CASE id = "D1" -> "D1s"
      [] id = "D2" -> "D2s"
      [] id = "I1" -> "I1s"
      [] id = "I2" -> "I2s"
      [] OTHER -> NULL

\* staging is the Buffer object the stagingBuffer pointer refers to; NoBuffer stands
\* for what a null pointer refers to
NoBuffer == [ handle |-> NULL, size |-> 0, bufferType |-> NULL ]

newStagingBuffer(handle, size) ==
    [ handle |-> handle, size |-> size, bufferType |-> "Staging" ]

createBuffer(id, size, type) ==
    [ resourceType |-> "StorageBuffer",
      size |-> size,
      bufferType |-> type,
      handle |-> id,
      stagingBuffer |-> IF type = "DeviceLocal" THEN StagingName(id) ELSE NULL,
      staging |-> IF type = "DeviceLocal" THEN newStagingBuffer(StagingName(id), size)
                  ELSE NoBuffer ]

\* faulty variant: the staging shadow holds one byte per pixel
createImageOneChannel(id, width, height) ==
    [ resourceType |-> "StorageImage",
      size |-> width * height * 4,
      bufferType |-> NULL,
      handle |-> id,
      stagingBuffer |-> StagingName(id),
      staging |-> newStagingBuffer(StagingName(id), width * height) ]

createImage(id, width, height) ==
    [ resourceType |-> "StorageImage",
      size |-> width * height * 4,
      bufferType |-> NULL,
      handle |-> id,
      stagingBuffer |-> StagingName(id),
      staging |-> newStagingBuffer(StagingName(id), width * height * 4) ]

\* D1c is a second Buffer object made by copying D1: an object of its own that
\* carries D1's ID, device buffer and staging shadow
BufferCopies == {"D1c"}

Resource(id) ==
    IF id \in BufferCopies THEN createBuffer("D1", BufSize, "DeviceLocal")
    ELSE IF id \in DeviceLocalBuffers THEN createBuffer(id, BufSize, "DeviceLocal")
    ELSE IF id \in StagingBuffers THEN createBuffer(id, BufSize, "Staging")
    ELSE IF id \in UniformBuffers THEN createBuffer(id, BufSize, "Uniform")
    ELSE createImage(id, ImgWidth, ImgHeight)

ShadowIds == {StagingName(id) : id \in DeviceLocalBuffers \cup Images}
MemIds == ResourceIds \cup ShadowIds

MemSize(m) ==
    IF m \in ResourceIds THEN Resource(m).size
    ELSE LET owner == CHOOSE id \in ResourceIds : Resource(id).stagingBuffer = m
         IN Resource(owner).staging.size

\* address order of the Resource objects (std::map<Resource *, ...> iterates in it)
ResourceOrder == <<"D1", "D2", "S1", "S2", "U1", "I1", "I2", "D1c">>

----------------------------------------------------------------------------
(* Tasks: what JobManager::createTask returns.  resourceAccessFlags is the  *)
(* reflected per-set, per-binding matrix; reflection yields None for an    *)
(* unused binding, Read for a non-writable one and Read|Write otherwise.   *)

TaskFlags(t) ==
    CASE t = "sum"    -> << <<Read, BitOr(Read, Write)>> >>
      [] t = "inc"    -> << <<BitOr(Read, Write)>> >>
      [] t = "rd"     -> << <<Read>> >>
      [] t = "unused" -> << <<None>> >>
      [] t = "tri"    -> << <<Read>>, <<Read>>, <<BitOr(Read, Write)>> >>
      [] t = "edge"   -> << <<Read, BitOr(Read, Write)>> >>

TaskPushSize(t) == IF t = "inc" THEN 1 ELSE 0

\* the longest binding list of a descriptor set in the model
MaxBindings == 3

TaskIds == {"sum", "inc", "rd", "unused", "tri", "edge"}

----------------------------------------------------------------------------
(* Finite maps (std::map) *)

EmptyMap == [x \in {} |-> NULL]

Put(f, k, v) == [x \in (DOMAIN f) \cup {k} |-> IF x = k THEN v ELSE f[x]]

RemoveAt(s, i) == [k \in 1..(Len(s) - 1) |-> IF k < i THEN s[k] ELSE s[k + 1]]

\* the elements of a finite set of naturals, ascending
RECURSIVE Ascending(_)
Ascending(S) ==
    IF S = {} THEN <<>>
    ELSE LET m == CHOOSE x \in S : \A y \in S : x <= y
         IN <<m>> \o Ascending(S \ {m})

----------------------------------------------------------------------------
(* class Job: construction *)

JobIds == {"J1", "J2"}

\* std::optional pendingConstants without a value
NoConstants == [present |-> FALSE, data |-> NULL, size |-> 0]

\* Job::Job as called by JobManager::createJob() with no external command buffer:
\* compute queue and a fence created signaled; vkBeginCommandBuffer is called.
NewJob ==
    [ computeQueue |-> "queue",
      fence |-> "signaled",
      signalSemaphore |-> NULL,
      isRecorded |-> FALSE,
      isSubmitted |-> FALSE,
      autoDataDependencyManagement |-> TRUE,
      pendingBindings |-> EmptyMap,
      pendingConstants |-> NoConstants,
      preExecutionTransfers |-> <<>>,
      postExecutionTransfers |-> <<>>,
      unguardedResourceAccess |-> EmptyMap,
      commandBuffer |-> <<>>,
      cbState |-> "recording",
      nEnd |-> 0,          \* successful vkEndCommandBuffer calls on the command buffer
      nSemaphores |-> 0,   \* semaphores created for this job
      nSubmit |-> 0 ]      \* submit calls made (bounds the model)

\* a vkCmd* call on the job's command buffer
\* the job createJob(commandBuffer) returns for a command buffer of the user's:
\* no queue, no fence, and the constructor does not begin the command buffer
ExternalJob == [NewJob EXCEPT !.computeQueue = NULL, !.fence = NULL]

Rec(J, c) == [J EXCEPT !.commandBuffer = Append(@, c)]

Ok(J, L) == [job |-> J, layout |-> L, err |-> "ok"]
Fail(J, L, kind) == [job |-> J, layout |-> L, err |-> kind]

----------------------------------------------------------------------------
(* Dependency tracker *)

mapStageAndAccessMask(accessStage, accessType) ==
    CASE accessStage = "Task" ->
            [ stage |-> {"COMPUTE_SHADER"},
              access |-> (IF BitAnd(accessType, Read) # 0 THEN {"SHADER_READ"} ELSE {})
                    \cup (IF BitAnd(accessType, Write) # 0 THEN {"SHADER_WRITE"} ELSE {}) ]
      [] accessStage = "Transfer" ->
            [ stage |-> {"TRANSFER"},
              access |-> (IF BitAnd(accessType, Read) # 0 THEN {"TRANSFER_READ"} ELSE {})
                    \cup (IF BitAnd(accessType, Write) # 0 THEN {"TRANSFER_WRITE"} ELSE {}) ]

mapStage(accessStage) ==
    CASE accessStage = "Task" -> {"COMPUTE_SHADER"}
      [] accessStage = "Transfer" -> {"TRANSFER"}

\* faulty variant: source and destination access masks exchanged
makeBufferMemoryBarrierSwapped(buffer, srcAccessMask, dstAccessMask) ==
    [ buffer |-> buffer, srcAccessMask |-> dstAccessMask, dstAccessMask |-> srcAccessMask ]

makeBufferMemoryBarrier(buffer, srcAccessMask, dstAccessMask) ==
    [ buffer |-> buffer, srcAccessMask |-> srcAccessMask, dstAccessMask |-> dstAccessMask ]

addResourceMemoryBarriers(J, bufferBarriers, imageBarriers, srcStageMask, dstStageMask) ==
    Rec(J, [ cmd |-> "PipelineBarrier",
             srcStageMask |-> srcStageMask,
             dstStageMask |-> dstStageMask,
             memoryBarriers |-> <<>>,
             bufferBarriers |-> bufferBarriers,
             imageBarriers |-> imageBarriers ])

\* "Accumulate access types for every unique resource"
RECURSIVE OrAll(_, _, _, _)
OrAll(requiredResources, accessTypes, r, i) ==
    IF i > Len(requiredResources) THEN 0
    ELSE BitOr(IF requiredResources[i] = r THEN accessTypes[i] ELSE 0,
               OrAll(requiredResources, accessTypes, r, i + 1))

uniqueResources(requiredResources, accessTypes) ==
    [ r \in {requiredResources[i] : i \in 1..Len(requiredResources)} |->
        OrAll(requiredResources, accessTypes, r, 1) ]

\* what the tracker stores for a resource after an access it did not skip
TrackedAccess(accessTypeFlags, accessStage) ==
    [ accessType |-> accessTypeFlags, accessStage |-> accessStage ]

\* faulty variant: a read after a read is not told apart from a read after a write
SkipsResourceNoReadAfterRead(info, accessTypeFlags) ==
    info.accessType = None \/ accessTypeFlags = None

\* the two tests that end an iteration of the loop early ("continue")
SkipsResource(info, accessTypeFlags) ==
    \/ info.accessType = Read /\ accessTypeFlags = Read
    \/ info.accessType = None \/ accessTypeFlags = None

\* the loop over uniqueResources, in address order; acc carries the tracker map and
\* the two barrier vectors
RECURSIVE DependencyLoop(_, _, _, _, _)
DependencyLoop(order, k, uniq, accessStage, acc) ==
    IF k > Len(order) THEN acc
    ELSE
      LET r == order[k]
          accessTypeFlags == uniq[r]
          updated == [acc EXCEPT !.unguarded =
                          Put(@, r, TrackedAccess(accessTypeFlags, accessStage))]
      IN
      IF r \notin DOMAIN uniq THEN DependencyLoop(order, k + 1, uniq, accessStage, acc)
      ELSE IF r \notin DOMAIN acc.unguarded
      THEN DependencyLoop(order, k + 1, uniq, accessStage, updated)
      ELSE
        LET info == acc.unguarded[r]
            src == mapStageAndAccessMask(info.accessStage, info.accessType)
            dst == mapStageAndAccessMask(accessStage, accessTypeFlags)
            b == makeBufferMemoryBarrier(Resource(r).handle, src.access, dst.access)
        IN
        IF SkipsResource(info, accessTypeFlags)
        THEN DependencyLoop(order, k + 1, uniq, accessStage, acc)
        ELSE IF Resource(r).resourceType = "StorageBuffer"
        THEN DependencyLoop(order, k + 1, uniq, accessStage,
                 IF info.accessStage = "Task"
                 THEN [updated EXCEPT !.shader = Append(@, b)]
                 ELSE [updated EXCEPT !.transfer = Append(@, b)])
        ELSE [acc EXCEPT !.err = "UnsupportedResourceType"]

\* faulty variant: an image is rejected whether or not the tracker knows it
checkDataDependencyRejectsImages(J, requiredResources, accessStage, accessTypes) ==
    IF ~J.autoDataDependencyManagement THEN [job |-> J, err |-> "ok"]
    ELSE IF Len(requiredResources) # Len(accessTypes)
    THEN [job |-> J, err |-> "LayoutMismatch"]
    ELSE IF \E i \in 1..Len(requiredResources) :
               Resource(requiredResources[i]).resourceType = "StorageImage"
    THEN [job |-> J, err |-> "UnsupportedResourceType"]
    ELSE
      LET out == DependencyLoop(ResourceOrder, 1,
                     uniqueResources(requiredResources, accessTypes), accessStage,
                     [ unguarded |-> J.unguardedResourceAccess,
                       shader |-> <<>>, transfer |-> <<>>, err |-> "ok" ])
          J1 == [J EXCEPT !.unguardedResourceAccess = out.unguarded]
          dstStage == mapStage(accessStage)
          J2 == IF Len(out.shader) > 0
                THEN addResourceMemoryBarriers(J1, out.shader, <<>>, {"COMPUTE_SHADER"}, dstStage)
                ELSE J1
          J3 == IF Len(out.transfer) > 0
                THEN addResourceMemoryBarriers(J2, out.transfer, <<>>, {"TRANSFER"}, dstStage)
                ELSE J2
      IN IF out.err # "ok" THEN [job |-> J1, err |-> out.err]
         ELSE [job |-> J3, err |-> "ok"]

\* faulty variant: the barriers of both source stages go into one pipeline barrier
\* with source stage ComputeShader
checkDataDependencyOneBarrier(J, requiredResources, accessStage, accessTypes) ==
    IF ~J.autoDataDependencyManagement THEN [job |-> J, err |-> "ok"]
    ELSE IF Len(requiredResources) # Len(accessTypes)
    THEN [job |-> J, err |-> "LayoutMismatch"]
    ELSE
      LET out == DependencyLoop(ResourceOrder, 1,
                     uniqueResources(requiredResources, accessTypes), accessStage,
                     [ unguarded |-> J.unguardedResourceAccess,
                       shader |-> <<>>, transfer |-> <<>>, err |-> "ok" ])
          J1 == [J EXCEPT !.unguardedResourceAccess = out.unguarded]
          J2 == IF Len(out.shader) + Len(out.transfer) > 0
                THEN addResourceMemoryBarriers(J1, out.shader \o out.transfer, <<>>,
                                               {"COMPUTE_SHADER"}, mapStage(accessStage))
                ELSE J1
      IN IF out.err # "ok" THEN [job |-> J1, err |-> out.err]
         ELSE [job |-> J2, err |-> "ok"]

checkDataDependency(J, requiredResources, accessStage, accessTypes) ==
    IF ~J.autoDataDependencyManagement THEN [job |-> J, err |-> "ok"]
    ELSE IF Len(requiredResources) # Len(accessTypes)
    THEN [job |-> J, err |-> "LayoutMismatch"]
    ELSE
      LET out == DependencyLoop(ResourceOrder, 1,
                     uniqueResources(requiredResources, accessTypes), accessStage,
                     [ unguarded |-> J.unguardedResourceAccess,
                       shader |-> <<>>, transfer |-> <<>>, err |-> "ok" ])
          J1 == [J EXCEPT !.unguardedResourceAccess = out.unguarded]
          dstStage == mapStage(accessStage)
          J2 == IF Len(out.shader) > 0
                THEN addResourceMemoryBarriers(J1, out.shader, <<>>, {"COMPUTE_SHADER"}, dstStage)
                ELSE J1
          J3 == IF Len(out.transfer) > 0
                THEN addResourceMemoryBarriers(J2, out.transfer, <<>>, {"TRANSFER"}, dstStage)
                ELSE J2
      IN IF out.err # "ok" THEN [job |-> J1, err |-> out.err]
         ELSE [job |-> J3, err |-> "ok"]

\* the overload taking one access type for all resources
checkDataDependencyAll(J, requiredResources, accessStage, accessType) ==
    checkDataDependency(J, requiredResources, accessStage,
                        [i \in 1..Len(requiredResources) |-> accessType])

----------------------------------------------------------------------------
(* Image layouts *)

Layouts == {"UNDEFINED", "GENERAL", "TRANSFER_SRC_OPTIMAL", "TRANSFER_DST_OPTIMAL",
            "PRESENT_SRC_KHR"}

\* JobManager::transitionImageLayout: the image-memory barrier for old -> new, or
\* a record with cmd "throw" where the switch statements throw
ManagerTransition(image, oldLayout, newLayout) ==
    IF oldLayout \notin {"UNDEFINED", "GENERAL", "TRANSFER_SRC_OPTIMAL", "TRANSFER_DST_OPTIMAL"}
       \/ newLayout \notin {"GENERAL", "TRANSFER_SRC_OPTIMAL", "TRANSFER_DST_OPTIMAL",
                            "PRESENT_SRC_KHR"}
    THEN [cmd |-> "throw"]
    ELSE
      LET srcAccess == CASE oldLayout = "UNDEFINED" -> {}
                         [] oldLayout = "GENERAL" -> {"SHADER_WRITE"}
                         [] OTHER -> {"TRANSFER_WRITE"}
          srcStage == CASE oldLayout = "UNDEFINED" -> {"TOP_OF_PIPE"}
                        [] oldLayout = "GENERAL" -> {"COMPUTE_SHADER"}
                        [] OTHER -> {"TRANSFER"}
          dstAccess == CASE newLayout = "GENERAL" -> {"SHADER_READ", "SHADER_WRITE"}
                         [] newLayout = "TRANSFER_SRC_OPTIMAL" -> {"TRANSFER_READ"}
                         [] newLayout = "TRANSFER_DST_OPTIMAL" -> {"TRANSFER_WRITE"}
                         [] OTHER -> {}
          dstStage == CASE newLayout = "GENERAL" -> {"COMPUTE_SHADER"}
                        [] newLayout = "PRESENT_SRC_KHR" -> {"BOTTOM_OF_PIPE"}
                        [] OTHER -> {"TRANSFER"}
      IN [ cmd |-> "PipelineBarrier",
           srcStageMask |-> srcStage,
           dstStageMask |-> dstStage,
           memoryBarriers |-> <<>>,
           bufferBarriers |-> <<>>,
           imageBarriers |-> << [ image |-> image, oldLayout |-> oldLayout,
                                  newLayout |-> newLayout,
                                  srcAccessMask |-> srcAccess,
                                  dstAccessMask |-> dstAccess ] >> ]

transitionImageLayout(J, L, image, newLayout) ==
    IF L[image] = newLayout THEN Ok(J, L)
    ELSE LET c == ManagerTransition(image, L[image], newLayout)
         IN IF c.cmd = "throw" THEN Fail(J, L, "UnsupportedLayoutTransition")
            ELSE Ok(Rec(J, c), [L EXCEPT ![image] = newLayout])

\* a chain of transitions and commands: each step runs only if the one before succeeded
Then(r, F(_, _)) == IF r.err # "ok" THEN r ELSE F(r.job, r.layout)

----------------------------------------------------------------------------
(* Recording operations *)

\* faulty variant: the transfer is dropped from its list once it was made
TransferInfoOneShot(deviceBuffer, size, hostBuffer) ==
    [ deviceBuffer |-> deviceBuffer, size |-> size, hostBuffer |-> hostBuffer,
      destroyAfterTransfer |-> TRUE ]

TransferInfo(deviceBuffer, size, hostBuffer) ==
    [ deviceBuffer |-> deviceBuffer, size |-> size, hostBuffer |-> hostBuffer,
      destroyAfterTransfer |-> FALSE ]

\* faulty variant: source and destination of the copy exchanged
CopyBufferCmdSwapped(src, dst, size) ==
    [ cmd |-> "CopyBuffer", src |-> dst, dst |-> src, size |-> size ]

CopyBufferCmd(src, dst, size) ==
    [ cmd |-> "CopyBuffer", src |-> src, dst |-> dst, size |-> size ]

\* faulty variant: an image upload leaves the image in the layout of the copy
syncResourceToDeviceNoReturnToGeneral(J, L, resource, data, size) ==
    LET R == Resource(resource) IN
    IF R.resourceType = "StorageBuffer" THEN
        LET sz == Min(size, R.size) IN
        IF R.bufferType = "DeviceLocal" THEN
            LET J1 == [J EXCEPT !.preExecutionTransfers =
                           Append(@, TransferInfo(R.stagingBuffer, sz, data))]
                d == checkDataDependencyAll(J1, <<resource>>, "Transfer", Write)
            IN IF d.err # "ok" THEN Fail(d.job, L, d.err)
               ELSE Ok(Rec(d.job, CopyBufferCmd(R.stagingBuffer, R.handle, sz)), L)
        ELSE
            Ok([J EXCEPT !.preExecutionTransfers =
                    Append(@, TransferInfo(R.handle, sz, data))], L)
    ELSE
        IF data = NULL THEN transitionImageLayout(J, L, resource, "GENERAL")
        ELSE IF size # R.size THEN Fail(J, L, "SizeMismatch")
        ELSE
            LET J1 == [J EXCEPT !.preExecutionTransfers =
                           Append(@, TransferInfo(R.stagingBuffer, size, data))]
                copy(Jx, Lx) == Ok(Rec(Jx, [ cmd |-> "CopyBufferToImage",
                                             src |-> R.stagingBuffer, dst |-> R.handle,
                                             dstLayout |-> "TRANSFER_DST_OPTIMAL" ]), Lx)
            IN Then(transitionImageLayout(J1, L, resource, "TRANSFER_DST_OPTIMAL"), copy)

syncResourceToDevice(J, L, resource, data, size) ==
    LET R == Resource(resource) IN
    IF R.resourceType = "StorageBuffer" THEN
        LET sz == Min(size, R.size) IN
        IF R.bufferType = "DeviceLocal" THEN
            LET J1 == [J EXCEPT !.preExecutionTransfers =
                           Append(@, TransferInfo(R.stagingBuffer, sz, data))]
                d == checkDataDependencyAll(J1, <<resource>>, "Transfer", Write)
            IN IF d.err # "ok" THEN Fail(d.job, L, d.err)
               ELSE Ok(Rec(d.job, CopyBufferCmd(R.stagingBuffer, R.handle, sz)), L)
        ELSE
            Ok([J EXCEPT !.preExecutionTransfers =
                    Append(@, TransferInfo(R.handle, sz, data))], L)
    ELSE
        IF data = NULL THEN transitionImageLayout(J, L, resource, "GENERAL")
        ELSE IF size # R.size THEN Fail(J, L, "SizeMismatch")
        ELSE
            LET J1 == [J EXCEPT !.preExecutionTransfers =
                           Append(@, TransferInfo(R.stagingBuffer, size, data))]
                copy(Jx, Lx) == Ok(Rec(Jx, [ cmd |-> "CopyBufferToImage",
                                             src |-> R.stagingBuffer, dst |-> R.handle,
                                             dstLayout |-> "TRANSFER_DST_OPTIMAL" ]), Lx)
                toGeneral(Jx, Lx) == transitionImageLayout(Jx, Lx, resource, "GENERAL")
            IN Then(Then(transitionImageLayout(J1, L, resource, "TRANSFER_DST_OPTIMAL"),
                         copy), toGeneral)

\* faulty variant: a download of a Staging or Uniform buffer is tracked as a
\* Transfer read
syncResourceToHostTracksHostVisible(J, L, resource, data, size) ==
    LET R == Resource(resource)
        d == checkDataDependencyAll(J, <<resource>>, "Transfer", Read)
    IN Ok([d.job EXCEPT !.postExecutionTransfers =
               Append(@, TransferInfo(R.handle, size, data))], L)

syncResourceToHost(J, L, resource, data, size) ==
    LET R == Resource(resource) IN
    IF R.resourceType = "StorageBuffer" THEN
        IF R.bufferType = "DeviceLocal" THEN
            LET d == checkDataDependencyAll(J, <<resource>>, "Transfer", Read)
                sz == Min(size, R.size)
                J1 == Rec(d.job, CopyBufferCmd(R.handle, R.stagingBuffer, sz))
            IN IF d.err # "ok" THEN Fail(d.job, L, d.err)
               ELSE Ok([J1 EXCEPT !.postExecutionTransfers =
                            Append(@, TransferInfo(R.stagingBuffer, sz, data))], L)
        ELSE
            Ok([J EXCEPT !.postExecutionTransfers =
                    Append(@, TransferInfo(R.handle, size, data))], L)
    ELSE
        IF size < R.size THEN Fail(J, L, "SizeMismatch")
        ELSE
            LET copy(Jx, Lx) == Ok(Rec(Jx, [ cmd |-> "CopyImageToBuffer",
                                             src |-> R.handle, dst |-> R.stagingBuffer,
                                             srcLayout |-> "TRANSFER_SRC_OPTIMAL" ]), Lx)
                toGeneral(Jx, Lx) == transitionImageLayout(Jx, Lx, resource, "GENERAL")
                queue(Jx, Lx) == Ok([Jx EXCEPT !.postExecutionTransfers =
                                        Append(@, TransferInfo(R.stagingBuffer, R.size, data))], Lx)
            IN Then(Then(Then(transitionImageLayout(J, L, resource, "TRANSFER_SRC_OPTIMAL"),
                              copy), toGeneral), queue)

\* faulty variant: a copy between a buffer and an image is refused only after the
\* image has been moved to the General layout
syncResourcesLateRefusal(J, L, src, dst) ==
    LET RS == Resource(src)
        RD == Resource(dst)
    IN
    IF RS.resourceType = "StorageImage" /\ RD.resourceType = "StorageImage" THEN
        LET toDst(Jx, Lx) == transitionImageLayout(Jx, Lx, dst, "TRANSFER_DST_OPTIMAL")
            copy(Jx, Lx) == Ok(Rec(Jx, [ cmd |-> "CopyImage", src |-> RS.handle,
                                         srcLayout |-> Lx[src], dst |-> RD.handle,
                                         dstLayout |-> Lx[dst] ]), Lx)
            srcGeneral(Jx, Lx) == transitionImageLayout(Jx, Lx, src, "GENERAL")
            dstGeneral(Jx, Lx) == transitionImageLayout(Jx, Lx, dst, "GENERAL")
        IN Then(Then(Then(Then(transitionImageLayout(J, L, src, "TRANSFER_SRC_OPTIMAL"),
                               toDst), copy), srcGeneral), dstGeneral)
    ELSE IF RS.resourceType = "StorageBuffer" /\ RD.resourceType = "StorageBuffer" THEN
        LET d == checkDataDependency(J, <<src, dst>>, "Transfer", <<Read, Write>>)
        IN IF d.err # "ok" THEN Fail(d.job, L, d.err)
           ELSE Ok(Rec(d.job, CopyBufferCmd(RS.handle, RD.handle, Min(RS.size, RD.size))), L)
    ELSE LET image == IF RS.resourceType = "StorageImage" THEN src ELSE dst
             t == transitionImageLayout(J, L, image, "GENERAL")
         IN Fail(t.job, t.layout, "UnsupportedSync")

syncResources(J, L, src, dst) ==
    LET RS == Resource(src)
        RD == Resource(dst)
    IN
    IF RS.resourceType = "StorageImage" /\ RD.resourceType = "StorageImage" THEN
        LET toDst(Jx, Lx) == transitionImageLayout(Jx, Lx, dst, "TRANSFER_DST_OPTIMAL")
            copy(Jx, Lx) == Ok(Rec(Jx, [ cmd |-> "CopyImage", src |-> RS.handle,
                                         srcLayout |-> Lx[src], dst |-> RD.handle,
                                         dstLayout |-> Lx[dst] ]), Lx)
            srcGeneral(Jx, Lx) == transitionImageLayout(Jx, Lx, src, "GENERAL")
            dstGeneral(Jx, Lx) == transitionImageLayout(Jx, Lx, dst, "GENERAL")
        IN Then(Then(Then(Then(transitionImageLayout(J, L, src, "TRANSFER_SRC_OPTIMAL"),
                               toDst), copy), srcGeneral), dstGeneral)
    ELSE IF RS.resourceType = "StorageBuffer" /\ RD.resourceType = "StorageBuffer" THEN
        LET d == checkDataDependency(J, <<src, dst>>, "Transfer", <<Read, Write>>)
        IN IF d.err # "ok" THEN Fail(d.job, L, d.err)
           ELSE Ok(Rec(d.job, CopyBufferCmd(RS.handle, RD.handle, Min(RS.size, RD.size))), L)
    ELSE Fail(J, L, "UnsupportedSync")

\* faulty variant: a set index that already has a pending binding keeps it
useResourcesFirstWins(J, index, resources) ==
    IF index \in DOMAIN J.pendingBindings THEN J
    ELSE [J EXCEPT !.pendingBindings = Put(@, index, resources)]

useResources(J, index, resources) ==
    [J EXCEPT !.pendingBindings = Put(@, index, resources)]

pushConstants(J, data, size) ==
    [J EXCEPT !.pendingConstants = [present |-> TRUE, data |-> data, size |-> size]]

addMemoryBarrier(J, srcStageMask, srcAccessMask, dstStageMask, dstAccessMask) ==
    Rec(J, [ cmd |-> "PipelineBarrier",
             srcStageMask |-> srcStageMask,
             dstStageMask |-> dstStageMask,
             memoryBarriers |-> << [ srcAccessMask |-> srcAccessMask,
                                     dstAccessMask |-> dstAccessMask ] >>,
             bufferBarriers |-> <<>>,
             imageBarriers |-> <<>> ])

addExecutionBarrier(J, srcStageMask, dstStageMask) ==
    Rec(J, [ cmd |-> "PipelineBarrier",
             srcStageMask |-> srcStageMask,
             dstStageMask |-> dstStageMask,
             memoryBarriers |-> <<>>,
             bufferBarriers |-> <<>>,
             imageBarriers |-> <<>> ])

waitForTasksFinish(J) ==
    addMemoryBarrier([J EXCEPT !.unguardedResourceAccess = EmptyMap],
        {"COMPUTE_SHADER"}, {"SHADER_WRITE"}, {"COMPUTE_SHADER"}, {"SHADER_READ"})

waitAfterTransfers(J) ==
    addMemoryBarrier(J,
        {"TRANSFER"}, {"TRANSFER_WRITE"}, {"COMPUTE_SHADER"}, {"SHADER_READ", "SHADER_WRITE"})

\* faulty variant: the barrier before transfers also forgets the tracked accesses
waitBeforeTransfersClearsMap(J) ==
    addMemoryBarrier([J EXCEPT !.unguardedResourceAccess = EmptyMap],
        {"COMPUTE_SHADER"}, {"SHADER_WRITE"}, {"TRANSFER"}, {"TRANSFER_READ"})

waitBeforeTransfers(J) ==
    addMemoryBarrier(J,
        {"COMPUTE_SHADER"}, {"SHADER_WRITE"}, {"TRANSFER"}, {"TRANSFER_READ"})

----------------------------------------------------------------------------
(* addTask *)

\* the resource list of a pending binding, for a ResourceSet or a plain vector
BindingResources(binding) == binding.resources

\* faulty variant: a binding list shorter than the set's layout is rejected as well
RECURSIVE CollectBindingsExact(_, _, _, _, _)
CollectBindingsExact(J, accessFlags, positions, k, acc) ==
    IF k > Len(positions) THEN acc
    ELSE
      LET pos == positions[k]
          rs == BindingResources(J.pendingBindings[pos])
      IN IF pos >= Len(accessFlags) \/ Len(rs) # Len(accessFlags[pos + 1])
         THEN [acc EXCEPT !.err = "LayoutMismatch"]
         ELSE CollectBindingsExact(J, accessFlags, positions, k + 1,
                  [ allResources |-> acc.allResources \o rs,
                    allAccessFlags |-> acc.allAccessFlags \o accessFlags[pos + 1],
                    err |-> "ok" ])

\* the loop of checkDataDependencyInPendingBindings over the pending bindings in
\* ascending set index; err is set where it throws
RECURSIVE CollectBindings(_, _, _, _, _)
CollectBindings(J, accessFlags, positions, k, acc) ==
    IF k > Len(positions) THEN acc
    ELSE
      LET pos == positions[k]
          rs == BindingResources(J.pendingBindings[pos])
      IN IF pos >= Len(accessFlags) \/ Len(rs) > Len(accessFlags[pos + 1])
         THEN [acc EXCEPT !.err = "LayoutMismatch"]
         ELSE CollectBindings(J, accessFlags, positions, k + 1,
                  [ allResources |-> acc.allResources \o rs,
                    allAccessFlags |-> acc.allAccessFlags
                                         \o SubSeq(accessFlags[pos + 1], 1, Len(rs)),
                    err |-> "ok" ])

checkDataDependencyInPendingBindings(J, task) ==
    IF ~J.autoDataDependencyManagement THEN [job |-> J, err |-> "ok"]
    ELSE
      LET all == CollectBindings(J, TaskFlags(task), Ascending(DOMAIN J.pendingBindings), 1,
                                 [allResources |-> <<>>, allAccessFlags |-> <<>>, err |-> "ok"])
      IN IF all.err # "ok" THEN [job |-> J, err |-> all.err]
         ELSE checkDataDependency(J, all.allResources, "Task", all.allAccessFlags)

BindDescriptorSetsCmd(firstSet, descriptorSets) ==
    [ cmd |-> "BindDescriptorSets", firstSet |-> firstSet, descriptorSets |-> descriptorSets ]

\* faulty variant: a gap in the set indices does not end the run
RECURSIVE BindLoopNoSplit(_, _, _, _)
BindLoopNoSplit(J, positions, k, run) ==
    IF k > Len(positions)
    THEN IF Len(run.sets) > 0 THEN Rec(J, BindDescriptorSetsCmd(run.first, run.sets)) ELSE J
    ELSE
      LET pos == positions[k]
          set == [ kind |-> J.pendingBindings[pos].kind,
                   resources |-> J.pendingBindings[pos].resources ]
      IN BindLoopNoSplit(J, positions, k + 1, [run EXCEPT !.sets = Append(@, set)])

\* the loop of bindPendingResources: run is [first, sets], the descriptor sets
\* accumulated since currentFirstPos
RECURSIVE BindLoop(_, _, _, _)
BindLoop(J, positions, k, run) ==
    IF k > Len(positions)
    THEN IF Len(run.sets) > 0 THEN Rec(J, BindDescriptorSetsCmd(run.first, run.sets)) ELSE J
    ELSE
      LET pos == positions[k]
          set == [ kind |-> J.pendingBindings[pos].kind,
                   resources |-> J.pendingBindings[pos].resources ]
      IN IF pos # run.first + Len(run.sets)
         THEN BindLoop(Rec(J, BindDescriptorSetsCmd(run.first, run.sets)), positions, k + 1,
                       [first |-> pos, sets |-> <<set>>])
         ELSE BindLoop(J, positions, k + 1, [run EXCEPT !.sets = Append(@, set)])

\* faulty variant: the pending push-constant blob survives the dispatch
bindPendingResourcesKeepsConstants(J, task) ==
    LET positions == Ascending(DOMAIN J.pendingBindings)
        currentFirstPos == IF Len(positions) > 0 THEN positions[1] ELSE 0
        J1 == BindLoop(J, positions, 1, [first |-> currentFirstPos, sets |-> <<>>])
        J2 == IF J1.pendingConstants.present
              THEN Rec(J1, [ cmd |-> "PushConstants", stage |-> "COMPUTE", offset |-> 0,
                             size |-> J1.pendingConstants.size,
                             data |-> J1.pendingConstants.data ])
              ELSE J1
    IN [J2 EXCEPT !.pendingBindings = EmptyMap]

\* variant: the push-constants command has the task's reflected block size
bindPendingResourcesReflectedSize(J, task) ==
    LET positions == Ascending(DOMAIN J.pendingBindings)
        currentFirstPos == IF Len(positions) > 0 THEN positions[1] ELSE 0
        J1 == BindLoop(J, positions, 1, [first |-> currentFirstPos, sets |-> <<>>])
        J2 == IF J1.pendingConstants.present
              THEN Rec(J1, [ cmd |-> "PushConstants", stage |-> "COMPUTE", offset |-> 0,
                             size |-> TaskPushSize(task),
                             data |-> J1.pendingConstants.data ])
              ELSE J1
    IN [J2 EXCEPT !.pendingBindings = EmptyMap, !.pendingConstants = NoConstants]

bindPendingResources(J, task) ==
    LET positions == Ascending(DOMAIN J.pendingBindings)
        currentFirstPos == IF Len(positions) > 0 THEN positions[1] ELSE 0
        J1 == BindLoop(J, positions, 1, [first |-> currentFirstPos, sets |-> <<>>])
        J2 == IF J1.pendingConstants.present
              THEN Rec(J1, [ cmd |-> "PushConstants", stage |-> "COMPUTE", offset |-> 0,
                             size |-> J1.pendingConstants.size,
                             data |-> J1.pendingConstants.data ])
              ELSE J1
    IN [J2 EXCEPT !.pendingBindings = EmptyMap, !.pendingConstants = NoConstants]

addTask(J, L, task, groupX) ==
    LET d == checkDataDependencyInPendingBindings(J, task)
        J1 == Rec(d.job, [cmd |-> "BindPipeline", task |-> task])
        J2 == bindPendingResources(J1, task)
    IN IF d.err # "ok" THEN Fail(d.job, L, d.err)
       ELSE Ok(Rec(J2, [cmd |-> "Dispatch", groupX |-> groupX]), L)

\* the overload that first places resources[i] as the pending binding of set i
RECURSIVE UseAll(_, _, _)
UseAll(J, resources, i) ==
    IF i > Len(resources) THEN J
    ELSE UseAll(useResources(J, i - 1, resources[i]), resources, i + 1)

addTaskWith(J, L, task, resources, groupX) ==
    addTask(UseAll(J, resources, 1), L, task, groupX)

----------------------------------------------------------------------------
(* Host <-> host-visible memory copies, submit and await *)

\* memcpy of size bytes from the start of src over the start of dst
Memcpy(dst, src, size) ==
    [i \in 1..Len(dst) |-> IF i <= size /\ i <= Len(src) THEN src[i] ELSE dst[i]]

ToHostVisibleCall(t) ==
    [ api |-> "copyDataToHostVisibleMemory", deviceBuffer |-> t.deviceBuffer,
      size |-> t.size, hostBuffer |-> t.hostBuffer ]

FromHostVisibleCall(t) ==
    [ api |-> "copyDataFromHostVisibleMemory", deviceBuffer |-> t.deviceBuffer,
      size |-> t.size, hostBuffer |-> t.hostBuffer ]

\* the loop of completePreExecutionTransfers from index i on; st is [list, mem, trace]
RECURSIVE PreLoop(_, _, _)
PreLoop(st, i, H) ==
    IF i > Len(st.list) THEN st
    ELSE
      LET t == st.list[i]
          copied == IF t.hostBuffer # NULL
                    THEN [st EXCEPT
                            !.mem[t.deviceBuffer] = Memcpy(@, H[t.hostBuffer], t.size),
                            !.trace = Append(@, ToHostVisibleCall(t))]
                    ELSE st
      IN IF t.destroyAfterTransfer
         THEN PreLoop([copied EXCEPT !.list = RemoveAt(@, i)], i, H)
         ELSE PreLoop(copied, i + 1, H)

completePreExecutionTransfers(J, M, H) ==
    LET out == PreLoop([list |-> J.preExecutionTransfers, mem |-> M, trace |-> <<>>], 1, H)
    IN [ job |-> [J EXCEPT !.preExecutionTransfers = out.list],
         mem |-> out.mem, trace |-> out.trace ]

\* the loop of completePostExecutionTransfers from index i on; st is [list, host, trace]
RECURSIVE PostLoop(_, _, _)
PostLoop(st, i, M) ==
    IF i > Len(st.list) THEN st
    ELSE
      LET t == st.list[i]
          copied == IF t.hostBuffer # NULL
                    THEN [st EXCEPT
                            !.host[t.hostBuffer] = Memcpy(@, M[t.deviceBuffer], t.size),
                            !.trace = Append(@, FromHostVisibleCall(t))]
                    ELSE st
      IN IF t.destroyAfterTransfer
         THEN PostLoop([copied EXCEPT !.list = RemoveAt(@, i)], i, M)
         ELSE PostLoop(copied, i + 1, M)

completePostExecutionTransfers(J, M, H) ==
    LET out == PostLoop([list |-> J.postExecutionTransfers, host |-> H, trace |-> <<>>], 1, M)
    IN [ job |-> [J EXCEPT !.postExecutionTransfers = out.list],
         host |-> out.host, trace |-> out.trace ]

\* closes the command buffer on every submit
CloseAlways(J, endOk) ==
    IF endOk
    THEN [ job |-> [J EXCEPT !.isRecorded = TRUE, !.cbState = "executable", !.nEnd = @ + 1],
           trace |-> << [api |-> "vkEndCommandBuffer"] >>, err |-> "ok" ]
    ELSE [ job |-> [J EXCEPT !.cbState = "invalid"],
           trace |-> << [api |-> "vkEndCommandBuffer"] >>, err |-> "Recording" ]

\* the first statement of submit: close the command buffer unless already recorded.
\* endOk is the result of vkEndCommandBuffer.
CloseIfNeeded(J, endOk) ==
    IF ~J.isRecorded
    THEN IF endOk
         THEN [ job |-> [J EXCEPT !.isRecorded = TRUE, !.cbState = "executable",
                                  !.nEnd = @ + 1],
                trace |-> << [api |-> "vkEndCommandBuffer"] >>, err |-> "ok" ]
         ELSE [ job |-> [J EXCEPT !.cbState = "invalid"],
                trace |-> << [api |-> "vkEndCommandBuffer"] >>, err |-> "Recording" ]
    ELSE [ job |-> J, trace |-> <<>>, err |-> "ok" ]

\* faulty variant: every signalling submit creates a semaphore of its own
AttachSignalEachTime(J, signal) ==
    IF signal
    THEN [ job |-> [J EXCEPT !.signalSemaphore = "semaphore", !.nSemaphores = @ + 1],
           trace |-> << [api |-> "createSemaphore"] >> ]
    ELSE [ job |-> J, trace |-> <<>> ]

\* the semaphore part of submit
AttachSignal(J, signal) ==
    IF signal /\ J.signalSemaphore = NULL
    THEN [ job |-> [J EXCEPT !.signalSemaphore = "semaphore", !.nSemaphores = @ + 1],
           trace |-> << [api |-> "createSemaphore"] >> ]
    ELSE [ job |-> J, trace |-> <<>> ]

\* Faulty variants of SubmitRecorded, CloseIfNeeded and await are defined next to the
\* originals; the properties further down must tell each of them from the original.

\* tests isSubmitted only after the pre-execution copies and the fence reset
SubmitRecordedLateTest(J, M, H, signal, queueOk) ==
    LET pre == completePreExecutionTransfers(J, M, H)
        reset == [pre.job EXCEPT !.fence = "unsignaled"]
        calls == pre.trace \o << [api |-> "vkResetFences"] >>
    IN IF J.isSubmitted
       THEN [ job |-> reset, mem |-> pre.mem, trace |-> calls, err |-> "IllegalState",
              enqueued |-> FALSE, semaphore |-> NULL ]
       ELSE IF queueOk
       THEN [ job |-> [reset EXCEPT !.isSubmitted = TRUE], mem |-> pre.mem,
              trace |-> calls \o << [api |-> "vkQueueSubmit", signalSemaphore |-> NULL] >>,
              err |-> "ok", enqueued |-> TRUE, semaphore |-> NULL ]
       ELSE [ job |-> reset, mem |-> pre.mem,
              trace |-> calls \o << [api |-> "vkQueueSubmit", signalSemaphore |-> NULL] >>,
              err |-> "Submission", enqueued |-> FALSE, semaphore |-> NULL ]

\* resets the fence before the pre-execution copies are made
SubmitRecordedEarlyReset(J, M, H, signal, queueOk) ==
    IF J.isSubmitted
    THEN [ job |-> J, mem |-> M, trace |-> <<>>, err |-> "IllegalState",
           enqueued |-> FALSE, semaphore |-> NULL ]
    ELSE
      LET pre == completePreExecutionTransfers(J, M, H)
          reset == [pre.job EXCEPT !.fence = "unsignaled"]
          calls == << [api |-> "vkResetFences"] >> \o pre.trace
                   \o << [api |-> "vkQueueSubmit", signalSemaphore |-> NULL] >>
      IN IF queueOk
         THEN [ job |-> [reset EXCEPT !.isSubmitted = TRUE], mem |-> pre.mem,
                trace |-> calls, err |-> "ok", enqueued |-> TRUE, semaphore |-> NULL ]
         ELSE [ job |-> reset, mem |-> pre.mem, trace |-> calls, err |-> "Submission",
                enqueued |-> FALSE, semaphore |-> NULL ]

\* leaves the fence as the last submission left it
SubmitRecordedNoReset(J, M, H, signal, queueOk) ==
    IF J.isSubmitted
    THEN [ job |-> J, mem |-> M, trace |-> <<>>, err |-> "IllegalState",
           enqueued |-> FALSE, semaphore |-> NULL ]
    ELSE
      LET pre == completePreExecutionTransfers(J, M, H)
          calls == pre.trace \o << [api |-> "vkQueueSubmit", signalSemaphore |-> NULL] >>
      IN IF queueOk
         THEN [ job |-> [pre.job EXCEPT !.isSubmitted = TRUE], mem |-> pre.mem,
                trace |-> calls, err |-> "ok", enqueued |-> TRUE, semaphore |-> NULL ]
         ELSE [ job |-> pre.job, mem |-> pre.mem, trace |-> calls, err |-> "Submission",
                enqueued |-> FALSE, semaphore |-> NULL ]

\* submit after the close: the isSubmitted test and everything behind it.
\* queueOk is the result of vkQueueSubmit.
SubmitRecorded(J, M, H, signal, queueOk) ==
    IF J.isSubmitted
    THEN [ job |-> J, mem |-> M, trace |-> <<>>, err |-> "IllegalState",
           enqueued |-> FALSE, semaphore |-> NULL ]
    ELSE
      LET pre == completePreExecutionTransfers(J, M, H)
          sem == AttachSignal(pre.job, signal)
          reset == [sem.job EXCEPT !.fence = IF @ = NULL THEN NULL ELSE "unsignaled"]
          calls == pre.trace \o sem.trace \o << [api |-> "vkResetFences"] >>
                   \o << [ api |-> "vkQueueSubmit",
                           signalSemaphore |-> IF signal THEN reset.signalSemaphore ELSE NULL ] >>
      IN IF queueOk
         THEN [ job |-> [reset EXCEPT !.isSubmitted = TRUE], mem |-> pre.mem,
                trace |-> calls, err |-> "ok", enqueued |-> J.computeQueue # NULL,
                semaphore |-> IF signal THEN reset.signalSemaphore ELSE NULL ]
         ELSE [ job |-> reset, mem |-> pre.mem, trace |-> calls, err |-> "Submission",
                enqueued |-> FALSE, semaphore |-> NULL ]

submit(J, M, H, signal, endOk, queueOk) ==
    LET c == CloseIfNeeded(J, endOk)
        s == SubmitRecorded(c.job, M, H, signal, queueOk)
    IN IF c.err # "ok"
       THEN [ job |-> c.job, mem |-> M, trace |-> c.trace, err |-> c.err,
              enqueued |-> FALSE, semaphore |-> NULL ]
       ELSE [s EXCEPT !.trace = c.trace \o @]

\* treats a timeout like a signaled fence, except for the return value
awaitCompletesOnTimeout(J, M, H, vkres) ==
    LET wait == << [api |-> "vkWaitForFences", result |-> vkres] >>
        post == completePostExecutionTransfers(J, M, H)
    IN IF vkres # "VK_SUCCESS" /\ vkres # "VK_TIMEOUT"
       THEN [ job |-> J, host |-> H, trace |-> wait, err |-> "Wait" ]
       ELSE [ job |-> [post.job EXCEPT !.isSubmitted = FALSE], host |-> post.host,
              trace |-> wait \o post.trace,
              err |-> IF vkres = "VK_SUCCESS" THEN "true" ELSE "false" ]

\* leaves isSubmitted set after a successful wait
awaitKeepsSubmitted(J, M, H, vkres) ==
    LET wait == << [api |-> "vkWaitForFences", result |-> vkres] >>
        post == completePostExecutionTransfers(J, M, H)
    IN IF vkres # "VK_SUCCESS" /\ vkres # "VK_TIMEOUT"
       THEN [ job |-> J, host |-> H, trace |-> wait, err |-> "Wait" ]
       ELSE IF vkres = "VK_SUCCESS"
       THEN [ job |-> post.job, host |-> post.host, trace |-> wait \o post.trace,
              err |-> "true" ]
       ELSE [ job |-> J, host |-> H, trace |-> wait, err |-> "false" ]

\* await: vkres is what vkWaitForFences returned
await(J, M, H, vkres) ==
    LET wait == << [api |-> "vkWaitForFences", result |-> vkres] >>
        post == completePostExecutionTransfers(J, M, H)
    IN IF vkres # "VK_SUCCESS" /\ vkres # "VK_TIMEOUT"
       THEN [ job |-> J, host |-> H, trace |-> wait, err |-> "Wait" ]
       ELSE IF vkres = "VK_SUCCESS"
       THEN [ job |-> [post.job EXCEPT !.isSubmitted = FALSE], host |-> post.host,
              trace |-> wait \o post.trace, err |-> "true" ]
       ELSE [ job |-> J, host |-> H, trace |-> wait, err |-> "false" ]

\* vkWaitForFences on a fence with the given timeout: the results it can return.
\* Waiting on a null fence handle is invalid usage: any result.
WaitResults(fence, timeout) ==
    IF fence = NULL THEN {"VK_SUCCESS", "VK_TIMEOUT", "VK_ERROR_DEVICE_LOST"}
    ELSE IF fence = "signaled" THEN {"VK_SUCCESS", "VK_ERROR_DEVICE_LOST"}
    ELSE IF timeout = UINT64_MAX THEN {"VK_ERROR_DEVICE_LOST"}
    ELSE {"VK_TIMEOUT", "VK_ERROR_DEVICE_LOST"}

----------------------------------------------------------------------------
(* The device: execution of an enqueued command buffer.                     *)
(* Commands run in recording order.  dirty[m] remembers the last write of   *)
(* m, the value m had before it, and the (stage, access) pairs a later      *)
(* pipeline barrier made that write visible to.  A command that reads m at  *)
(* a pair the write is not visible to races with the write: it reads the    *)
(* new value or the old one.                                                *)

NoWrite == [written |-> FALSE, stage |-> NULL, access |-> NULL, old |-> <<>>, vis |-> {}]

DeviceStart(M) ==
    [ mem |-> M,
      dirty |-> [m \in MemIds |-> NoWrite],
      bound |-> EmptyMap,
      pipeline |-> NULL ]

DeviceRead(st, m, stage, access, stale) ==
    IF stale /\ st.dirty[m].written /\ <<stage, access>> \notin st.dirty[m].vis
    THEN st.dirty[m].old
    ELSE st.mem[m]

DeviceWrite(st, m, value, stage, access) ==
    [st EXCEPT !.mem[m] = value,
               !.dirty[m] = [written |-> TRUE, stage |-> stage, access |-> access,
                             old |-> st.mem[m], vis |-> {}]]

\* the destination access masks of the barriers of command c that cover a write of m
\* made with the given access
CoveringAccess(c, m, access) ==
    UNION ( {c.memoryBarriers[i].dstAccessMask : i \in
                {k \in 1..Len(c.memoryBarriers) : access \in c.memoryBarriers[k].srcAccessMask}}
       \cup {c.bufferBarriers[i].dstAccessMask : i \in
                {k \in 1..Len(c.bufferBarriers) :
                    c.bufferBarriers[k].buffer = m /\ access \in c.bufferBarriers[k].srcAccessMask}}
       \cup {c.imageBarriers[i].dstAccessMask : i \in
                {k \in 1..Len(c.imageBarriers) :
                    c.imageBarriers[k].image = m /\ access \in c.imageBarriers[k].srcAccessMask}} )

DeviceBarrier(st, c) ==
    [st EXCEPT !.dirty = [m \in MemIds |->
        IF st.dirty[m].written /\ st.dirty[m].stage \in c.srcStageMask
        THEN [st.dirty[m] EXCEPT !.vis =
                 @ \cup (c.dstStageMask \X CoveringAccess(c, m, st.dirty[m].access))]
        ELSE st.dirty[m]]]

\* the resources a dispatch of the bound pipeline accesses through the bound sets,
\* each with the access flags of its binding
DispatchBindings(st) ==
    IF st.pipeline = NULL THEN {}
    ELSE LET flags == TaskFlags(st.pipeline)
         IN { <<st.bound[s][b], flags[s + 1][b]>> :
                <<s, b>> \in { x \in (DOMAIN st.bound) \X (1..MaxBindings) :
                                  /\ x[1] < Len(flags)
                                  /\ x[2] <= Len(st.bound[x[1]])
                                  /\ x[2] <= Len(flags[x[1] + 1]) } }

\* the shader of the model: every written binding receives, byte by byte, the sum of
\* the bindings read (plus one for "inc"), modulo the byte range
RECURSIVE SumAt(_, _, _, _)
SumAt(st, readers, i, stale) ==
    IF readers = {} THEN 0
    ELSE LET m == CHOOSE x \in readers : TRUE
             v == DeviceRead(st, m, "COMPUTE_SHADER", "SHADER_READ", stale)
         IN (IF i <= Len(v) THEN v[i] ELSE 0) + SumAt(st, readers \ {m}, i, stale)

RECURSIVE WriteAll(_, _, _)
WriteAll(st, writers, value) ==
    IF writers = {} THEN st
    ELSE LET m == CHOOSE x \in writers : TRUE
         IN WriteAll(DeviceWrite(st, m, [i \in 1..Len(st.mem[m]) |-> value[i]],
                                 "COMPUTE_SHADER", "SHADER_WRITE"),
                     writers \ {m}, value)

DeviceDispatch(st, stale) ==
    LET uses == DispatchBindings(st)
        readers == {u[1] : u \in {x \in uses : BitAnd(x[2], Read) # 0}}
        writers == {u[1] : u \in {x \in uses : BitAnd(x[2], Write) # 0}}
        bump == IF st.pipeline = "inc" THEN 1 ELSE 0
        value == [i \in 1..(BufSize + ImgWidth * ImgHeight * 4) |->
                     (SumAt(st, readers, i, stale) + bump) % Cardinality(Byte)]
    IN WriteAll(st, writers, value)

DeviceStep(st, c, stale) ==
    CASE c.cmd = "CopyBuffer" ->
            DeviceWrite(st, c.dst,
                Memcpy(st.mem[c.dst],
                       DeviceRead(st, c.src, "TRANSFER", "TRANSFER_READ", stale), c.size),
                "TRANSFER", "TRANSFER_WRITE")
      [] c.cmd \in {"CopyBufferToImage", "CopyImageToBuffer", "CopyImage"} ->
            DeviceWrite(st, c.dst,
                Memcpy(st.mem[c.dst],
                       DeviceRead(st, c.src, "TRANSFER", "TRANSFER_READ", stale),
                       Len(st.mem[c.dst])),
                "TRANSFER", "TRANSFER_WRITE")
      [] c.cmd = "PipelineBarrier" -> DeviceBarrier(st, c)
      [] c.cmd = "BindPipeline" -> [st EXCEPT !.pipeline = c.task]
      [] c.cmd = "BindDescriptorSets" ->
            [st EXCEPT !.bound =
                [s \in (DOMAIN st.bound)
                       \cup {c.firstSet + i - 1 : i \in 1..Len(c.descriptorSets)} |->
                    IF s >= c.firstSet /\ s < c.firstSet + Len(c.descriptorSets)
                    THEN c.descriptorSets[s - c.firstSet + 1].resources
                    ELSE st.bound[s]]]
      [] c.cmd = "Dispatch" -> DeviceDispatch(st, stale)
      [] OTHER -> st

ReadingCommands == {"CopyBuffer", "CopyBufferToImage", "CopyImageToBuffer", "CopyImage",
                    "Dispatch"}

RECURSIVE DeviceRun(_, _, _, _)
DeviceRun(cmds, k, st, stale) ==
    IF k > Len(cmds) THEN st
    ELSE DeviceRun(cmds, k + 1, DeviceStep(st, cmds[k], k \in stale), stale)

\* the memory after the device ran the command buffer; the commands in stale lose
\* their races
Execute(cmds, M, stale) == DeviceRun(cmds, 1, DeviceStart(M), stale).mem

\* the images a command touches, each with the layout the command was recorded for
ExpectedLayouts(c) ==
    CASE c.cmd = "PipelineBarrier" ->
            {<<c.imageBarriers[i].image, c.imageBarriers[i].oldLayout>> :
                i \in 1..Len(c.imageBarriers)}
      [] c.cmd = "CopyBufferToImage" -> {<<c.dst, c.dstLayout>>}
      [] c.cmd = "CopyImageToBuffer" -> {<<c.src, c.srcLayout>>}
      [] c.cmd = "CopyImage" -> {<<c.src, c.srcLayout>>, <<c.dst, c.dstLayout>>}
      [] OTHER -> {}

\* the layouts after a command whose layout transitions are carried out as recorded
Transitioned(DL, c) ==
    IF c.cmd # "PipelineBarrier" THEN DL
    ELSE [i \in DOMAIN DL |->
            IF \E k \in 1..Len(c.imageBarriers) : c.imageBarriers[k].image = i
            THEN c.imageBarriers[CHOOSE k \in 1..Len(c.imageBarriers) :
                                    c.imageBarriers[k].image = i].newLayout
            ELSE DL[i]]

\* what one command can do to the image layouts: a transition whose old layout is
\* the image's layout is carried out; one recorded from UNDEFINED is carried out
\* and may discard the image's contents; a command that finds an image in another
\* layout than its own is invalid usage, after which the image may be in any
\* layout, with any contents
LayoutOutcomes(o, c) ==
    LET exp == ExpectedLayouts(c)
        touched == {e[1] : e \in exp}
        discards == {e[1] : e \in {x \in exp : x[2] = "UNDEFINED"
                                              /\ o.layout[x[1]] # "UNDEFINED"}}
        valid == \A e \in exp :
                    \/ o.layout[e[1]] = e[2]
                    \/ c.cmd = "PipelineBarrier" /\ e[2] = "UNDEFINED"
    IN IF valid
       THEN {[layout |-> Transitioned(o.layout, c), undefined |-> o.undefined \cup discards]}
       ELSE {[layout |-> [i \in DOMAIN o.layout |->
                              IF i \in touched THEN f[i] ELSE o.layout[i]],
              undefined |-> o.undefined \cup touched] : f \in [touched -> Layouts]}

RECURSIVE LayoutRun(_, _, _)
LayoutRun(cmds, k, outs) ==
    IF k > Len(cmds) THEN outs
    ELSE LayoutRun(cmds, k + 1, UNION {LayoutOutcomes(o, cmds[k]) : o \in outs})

\* memory in which the contents of the images in lost were not preserved
Discard(M, lost) ==
    [m \in DOMAIN M |-> IF m \in lost THEN [i \in 1..Len(M[m]) |-> 0] ELSE M[m]]

\* every command of the buffer finds each image it touches in the layout the
\* command was recorded for, when the buffer runs from the layouts DL
RECURSIVE LayoutsAsRecorded(_, _, _)
LayoutsAsRecorded(cmds, k, DL) ==
    \/ k > Len(cmds)
    \/ /\ \A e \in ExpectedLayouts(cmds[k]) : DL[e[1]] = e[2]
       /\ LayoutsAsRecorded(cmds, k + 1, Transitioned(DL, cmds[k]))

----------------------------------------------------------------------------
(* State and steps *)

----------------------------------------------------------------------------
(* The manager's teardown lists (JobManager.cpp).  Every create* call pushes *)
(* the handles it made onto the list of their kind; cleanupResources and     *)
(* cleanupVulkan walk the lists and destroy what they hold.  A handle is     *)
(* [kind, of, n]: its Vulkan object kind, the model object it was made for   *)
(* and a serial number.  manager.destroyed is the sequence of vkDestroy* and *)
(* free calls the device has received so far.                                *)

Handle(kind, of, n) == [kind |-> kind, of |-> of, n |-> n]

\* the paths of the shader cache in the iteration order of std::map
ShaderPaths == <<"edge", "inc", "rd", "sum", "tri", "unused">>

NewManager ==
    [ fences |-> <<>>, semaphores |-> <<>>, buffers |-> <<>>, imageViews |-> <<>>,
      images |-> <<>>, allocatedMemory |-> <<>>, pipelines |-> <<>>,
      pipelineLayouts |-> <<>>, descriptorSetLayouts |-> <<>>,
      shaderModules |-> EmptyMap,
      descriptorPool |-> Handle("descriptorPool", "manager", 0),
      commandPool |-> Handle("commandPool", "manager", 0),
      nCreated |-> 0,       \* tasks and resource sets created so far
      destroyed |-> <<>> ]

\* the push_back calls of JobManager::createBuffer and of JobManager::createImage
\* for the staging shadow of R
TrackStaging(M, R) ==
    IF R.stagingBuffer = NULL THEN M
    ELSE [M EXCEPT !.buffers = Append(@, Handle("buffer", R.staging.handle, 0)),
                   !.allocatedMemory = Append(@, Handle("memory", R.staging.handle, 0))]

TrackBuffer(M, B) ==
    TrackStaging([M EXCEPT !.buffers = Append(@, Handle("buffer", B.handle, 0)),
                           !.allocatedMemory = Append(@, Handle("memory", B.handle, 0))], B)

TrackImage(M, I) ==
    TrackStaging([M EXCEPT !.images = Append(@, Handle("image", I.handle, 0)),
                           !.imageViews = Append(@, Handle("imageView", I.handle, 0)),
                           !.allocatedMemory = Append(@, Handle("memory", I.handle, 0))], I)

createJob(M, j) == [M EXCEPT !.fences = Append(@, Handle("fence", j, 0))]

createSemaphore(M, j, n) == [M EXCEPT !.semaphores = Append(@, Handle("semaphore", j, n))]

createResourceSet(M) ==
    [M EXCEPT !.descriptorSetLayouts = Append(@, Handle("descriptorSetLayout", "set", M.nCreated + 1)),
              !.nCreated = @ + 1]

getShaderModule(M, shaderPath) ==
    IF shaderPath \in DOMAIN M.shaderModules THEN M
    ELSE [M EXCEPT !.shaderModules = Put(@, shaderPath, Handle("shaderModule", shaderPath, 0))]

\* JobManager::_createTask: the shaders of the model declare one descriptor set
createTask(M, shaderPath) ==
    LET n == M.nCreated + 1
    IN [getShaderModule(M, shaderPath) EXCEPT
            !.descriptorSetLayouts = Append(@, Handle("descriptorSetLayout", shaderPath, n)),
            !.pipelineLayouts = Append(@, Handle("pipelineLayout", shaderPath, n)),
            !.pipelines = Append(@, Handle("pipeline", shaderPath, n)),
            !.nCreated = n]

\* the calls of one teardown function, and the manager it leaves
Destroyed(M, calls) == [ manager |-> [M EXCEPT !.destroyed = @ \o calls], calls |-> calls ]

TrackedHandles(M) ==
    M.fences \o M.semaphores \o M.buffers \o M.imageViews \o M.images
        \o M.allocatedMemory \o M.pipelines \o M.pipelineLayouts \o M.descriptorSetLayouts

\* faulty variant: the lists keep their handles after the loops
cleanupResourcesKeepsLists(M) == Destroyed(M, TrackedHandles(M))

cleanupResources(M) ==
    Destroyed([M EXCEPT !.fences = <<>>, !.semaphores = <<>>, !.buffers = <<>>,
                        !.imageViews = <<>>, !.images = <<>>, !.allocatedMemory = <<>>,
                        !.pipelines = <<>>, !.pipelineLayouts = <<>>,
                        !.descriptorSetLayouts = <<>>],
              TrackedHandles(M))

ShaderModuleHandles(M) ==
    LET cached == SelectSeq(ShaderPaths, LAMBDA p : p \in DOMAIN M.shaderModules)
    IN [i \in 1..Len(cached) |-> M.shaderModules[cached[i]]]

cleanupVulkan(M) ==
    LET resources == cleanupResources(M)
        own == <<M.descriptorPool, M.commandPool>> \o ShaderModuleHandles(M)
        after == Destroyed([resources.manager EXCEPT !.shaderModules = EmptyMap], own)
    IN [ manager |-> after.manager, calls |-> resources.calls \o own ]

RECURSIVE TrackAll(_, _, _)
\* the manager after creating the resources rs from position k on
TrackAll(M, rs, k) ==
    IF k > Len(rs) THEN M
    ELSE LET R == Resource(rs[k])
         IN TrackAll(IF R.resourceType = "StorageImage" THEN TrackImage(M, R)
                     ELSE TrackBuffer(M, R), rs, k + 1)

\* the manager that created the resources rs, the jobs js and a task per path of ts
ManagerOf(rs, js, ts) ==
    LET order == SelectSeq(<<"J1", "J2">>, LAMBDA j : j \in js)
        RECURSIVE Jobs(_, _)
        Jobs(M, k) == IF k > Len(order) THEN M ELSE Jobs(createJob(M, order[k]), k + 1)
        RECURSIVE Tasks(_, _)
        Tasks(M, k) == IF k > Len(ts) THEN M ELSE Tasks(createTask(M, ts[k]), k + 1)
    IN Jobs(Tasks(TrackAll(NewManager, rs, 1), 1), 1)

\* the resources made by a create call, in address order
CreatedResources == SelectSeq(ResourceOrder, LAMBDA id : id \notin BufferCopies)

HostVars == {"p", "q"}
Payloads == [1..BufSize -> Byte]
\* the contents the user gives the input array p
Inputs == { [i \in 1..BufSize |-> IF i = 1 THEN 1 ELSE 0],
            [i \in 1..BufSize |-> IF i = BufSize THEN 1 ELSE 0] }
Zeros(n) == [i \in 1..n |-> 0]

Init ==
    /\ jobs = [j \in JobIds |-> NewJob]
    /\ layout = [i \in Images |-> "UNDEFINED"]
    /\ deviceLayout = [i \in Images |-> "UNDEFINED"]
    /\ manager = ManagerOf(CreatedResources, JobIds, ShaderPaths)
    /\ mem = [m \in MemIds |-> Zeros(MemSize(m))]
    /\ host \in {h \in [HostVars -> Payloads] : h["p"] \in Inputs /\ h["q"] = Zeros(BufSize)}
    /\ inFlight = {}
    /\ lastOp = [job |-> NULL, op |-> "init"]
    /\ res = "ok"
    /\ trace = <<>>
    /\ script = [j \in JobIds |-> <<>>]

\* faulty variant: the unguarded-access map is one map shared by all jobs
RecordSharedTracker(j, lim, call, out) ==
    /\ Len(script[j]) < lim
    /\ jobs' = [k \in JobIds |->
                  IF k = j THEN out.job
                  ELSE [jobs[k] EXCEPT !.unguardedResourceAccess =
                                           out.job.unguardedResourceAccess]]
    /\ layout' = out.layout
    /\ res' = out.err
    /\ lastOp' = call
    /\ trace' = <<>>
    /\ script' = [script EXCEPT ![j] = Append(@, call)]
    /\ UNCHANGED <<deviceLayout, mem, host, inFlight, manager>>

\* A recording call.  call names the method and its arguments, out is what the
\* method's operator returned.  vkCmd* calls on a command buffer that is not in the
\* recording state are invalid usage: the commands may or may not end up in it.
Record(j, lim, call, out) ==
    /\ Len(script[j]) < lim
    /\ \E kept \in BOOLEAN :
         jobs' = [jobs EXCEPT ![j] =
                    IF jobs[j].cbState # "recording" /\ ~kept
                    THEN [out.job EXCEPT !.commandBuffer = jobs[j].commandBuffer]
                    ELSE out.job]
    /\ layout' = out.layout
    /\ res' = out.err
    /\ lastOp' = call
    /\ trace' = <<>>
    /\ script' = [script EXCEPT ![j] = Append(@, call)]
    /\ UNCHANGED <<deviceLayout, mem, host, inFlight, manager>>

SyncResourceToDevice(j, lim, RS, DS, SZ) ==
    \E r \in RS, d \in DS, sz \in SZ :
        Record(j, lim, [job |-> j, op |-> "syncResourceToDevice", resource |-> r,
                   data |-> d, size |-> sz],
               syncResourceToDevice(jobs[j], layout, r, d, sz))

SyncResourceToHost(j, lim, RS, DS, SZ) ==
    \E r \in RS, d \in DS, sz \in SZ :
        Record(j, lim, [job |-> j, op |-> "syncResourceToHost", resource |-> r,
                   data |-> d, size |-> sz],
               syncResourceToHost(jobs[j], layout, r, d, sz))

SyncResources(j, lim, Pairs) ==
    \E pr \in Pairs :
        Record(j, lim, [job |-> j, op |-> "syncResources", src |-> pr[1], dst |-> pr[2]],
               syncResources(jobs[j], layout, pr[1], pr[2]))

UseResources(j, lim, IX, BS) ==
    \E ix \in IX, b \in BS :
        Record(j, lim, [job |-> j, op |-> "useResources", index |-> ix, resources |-> b],
               Ok(useResources(jobs[j], ix, b), layout))

PushConstants(j, lim, SZ) ==
    \E sz \in SZ :
        Record(j, lim, [job |-> j, op |-> "pushConstants", size |-> sz],
               Ok(pushConstants(jobs[j], "constants", sz), layout))

AddTask(j, lim, TS) ==
    \E t \in TS :
        Record(j, lim, [job |-> j, op |-> "addTask", task |-> t, resources |-> <<>>],
               addTask(jobs[j], layout, t, 1))

AddTaskWith(j, lim, TS, BSS) ==
    \E t \in TS, bs \in BSS :
        Record(j, lim, [job |-> j, op |-> "addTask", task |-> t, resources |-> bs],
               addTaskWith(jobs[j], layout, t, bs, 1))

WaitForTasksFinish(j, lim) ==
    Record(j, lim, [job |-> j, op |-> "waitForTasksFinish"], Ok(waitForTasksFinish(jobs[j]), layout))

WaitAfterTransfers(j, lim) ==
    Record(j, lim, [job |-> j, op |-> "waitAfterTransfers"], Ok(waitAfterTransfers(jobs[j]), layout))

WaitBeforeTransfers(j, lim) ==
    Record(j, lim, [job |-> j, op |-> "waitBeforeTransfers"], Ok(waitBeforeTransfers(jobs[j]), layout))

StageMasks == {{"COMPUTE_SHADER"}, {"TRANSFER"}}

AddMemoryBarrier(j, lim) ==
    \E ss \in StageMasks, ds \in StageMasks :
        Record(j, lim, [job |-> j, op |-> "addMemoryBarrier", srcStageMask |-> ss, dstStageMask |-> ds],
               Ok(addMemoryBarrier(jobs[j], ss,
                     IF ss = {"TRANSFER"} THEN {"TRANSFER_WRITE"} ELSE {"SHADER_WRITE"}, ds,
                     IF ds = {"TRANSFER"} THEN {"TRANSFER_READ"} ELSE {"SHADER_READ"}), layout))

AddExecutionBarrier(j, lim) ==
    \E ss \in StageMasks, ds \in StageMasks :
        Record(j, lim, [job |-> j, op |-> "addExecutionBarrier", srcStageMask |-> ss, dstStageMask |-> ds],
               Ok(addExecutionBarrier(jobs[j], ss, ds), layout))

SetAutoDataDependencyManagement(j) ==
    /\ script[j] = <<>>
    /\ ~jobs[j].isRecorded
    /\ jobs[j].autoDataDependencyManagement
    /\ jobs' = [jobs EXCEPT ![j].autoDataDependencyManagement = FALSE]
    /\ lastOp' = [job |-> j, op |-> "setAutoDataDependencyManagement"]
    /\ res' = "ok"
    /\ trace' = <<>>
    /\ UNCHANGED <<layout, deviceLayout, mem, host, inFlight, script, manager>>

Submit(j, Signals, ApiResults) ==
    /\ jobs[j].nSubmit < MaxSubmits
    /\ \E signal \in Signals, endOk \in ApiResults, queueOk \in ApiResults :
         LET out == submit(jobs[j], mem, host, signal, endOk, queueOk)
         IN /\ jobs' = [jobs EXCEPT ![j] = [out.job EXCEPT !.nSubmit = @ + 1]]
            /\ mem' = out.mem
            /\ inFlight' = IF out.enqueued THEN inFlight \cup {j} ELSE inFlight
            /\ res' = out.err
            /\ trace' = out.trace
            /\ lastOp' = [job |-> j, op |-> "submit", signal |-> signal,
                          semaphore |-> out.semaphore]
            /\ manager' = IF out.job.nSemaphores > jobs[j].nSemaphores
                          THEN createSemaphore(manager, j, out.job.nSemaphores)
                          ELSE manager
    /\ UNCHANGED <<layout, deviceLayout, host, script>>

Timeouts == {0, UINT64_MAX}

\* some queued download copies more bytes than its host-visible buffer has: the
\* memcpy of completePostExecutionTransfers then reads and writes out of bounds
CopiesPastEnd(J) ==
    \E i \in 1..Len(J.postExecutionTransfers) :
        LET t == J.postExecutionTransfers[i]
        IN t.hostBuffer # NULL /\ t.size > MemSize(t.deviceBuffer)

\* await called with a timeout of Ts.  An out-of-bounds memcpy is undefined: it may
\* leave anything in host memory.
AwaitWithin(j, Ts, WaitOutcomes) ==
    /\ \E timeout \in Ts :
       \E vkres \in WaitResults(jobs[j].fence, timeout) \cap WaitOutcomes :
         LET out == await(jobs[j], mem, host, vkres)
         IN /\ jobs' = [jobs EXCEPT ![j] = out.job]
            /\ host' \in IF vkres = "VK_SUCCESS" /\ CopiesPastEnd(jobs[j])
                         THEN [HostVars -> Payloads]
                         ELSE {out.host}
            /\ res' = out.err
            /\ trace' = out.trace
            /\ lastOp' = [job |-> j, op |-> "await", timeout |-> timeout]
    /\ UNCHANGED <<layout, deviceLayout, mem, inFlight, script, manager>>

Await(j, WaitOutcomes) == AwaitWithin(j, Timeouts, WaitOutcomes)

\* the device runs the enqueued command buffer to its end and signals the fence
DeviceExecute(j) ==
    /\ j \in inFlight
    /\ \E stale \in SUBSET {k \in 1..Len(jobs[j].commandBuffer) :
                               jobs[j].commandBuffer[k].cmd \in ReadingCommands} :
       \E out \in LayoutRun(jobs[j].commandBuffer, 1,
                              {[layout |-> deviceLayout, undefined |-> {}]}) :
         \E lost \in SUBSET out.undefined :
           /\ mem' = Discard(Execute(jobs[j].commandBuffer, mem, stale), lost)
           /\ deviceLayout' = out.layout
    /\ jobs' = [jobs EXCEPT ![j].fence = "signaled"]
    /\ inFlight' = inFlight \ {j}
    /\ lastOp' = [job |-> j, op |-> "device"]
    /\ res' = "ok"
    /\ trace' = <<>>
    /\ UNCHANGED <<layout, host, script, manager>>

\* the user stores new input in a host array while no job is in flight
HostWrite(v) ==
    /\ \A j \in JobIds : ~jobs[j].isSubmitted
    /\ \E value \in Inputs :
         /\ value # host[v]
         /\ host' = [host EXCEPT ![v] = value]
    /\ lastOp' = [job |-> NULL, op |-> "hostWrite"]
    /\ res' = "ok"
    /\ trace' = <<>>
    /\ UNCHANGED <<jobs, layout, deviceLayout, mem, inFlight, script, manager>>

----------------------------------------------------------------------------
(* Spec: the life cycle of one job - recording, submit, execution, await,    *)
(* resubmission - over a DeviceLocal and a Staging buffer.                   *)

List(rs) == [kind |-> "list", resources |-> rs]

Next ==
    \/ SyncResourceToDevice("J1", MaxOps, {"D1", "S1"}, {"p"}, {BufSize})
    \/ SyncResourceToHost("J1", MaxOps, {"D1", "S1"}, {"q"}, {BufSize})
    \/ AddTaskWith("J1", MaxOps, {"inc"}, {<<List(<<"D1">>)>>})
    \/ WaitForTasksFinish("J1", MaxOps)
    \/ Submit("J1", {FALSE}, BOOLEAN)
    \/ Await("J1", {"VK_SUCCESS", "VK_TIMEOUT", "VK_ERROR_DEVICE_LOST"})
    \/ DeviceExecute("J1")
    \/ HostWrite("p")

Spec == Init /\ [][Next]_vars

----------------------------------------------------------------------------
(* Properties of the life cycle, checked under Spec *)

RecordingOps == {"syncResourceToDevice", "syncResourceToHost", "syncResources",
                 "useResources", "pushConstants", "addTask", "waitForTasksFinish",
                 "waitAfterTransfers", "waitBeforeTransfers", "addMemoryBarrier",
                 "addExecutionBarrier"}

\* a submit of job j has succeeded at some point: the command buffer was closed and
\* enqueued (a fence that was reset is signaled again only by the device)
HasBeenSubmitted(j) ==
    jobs[j].isRecorded /\ (j \in inFlight \/ jobs[j].fence = "signaled")

\* the indices of the calls of the given api in a call trace
Calls(tr, api) == {i \in 1..Len(tr) : tr[i].api = api}

\* C1: once submit has succeeded on a job, every later recording operation on it
\* fails with IllegalState and appends nothing to the command buffer or to the
\* pre/post-execution transfer lists, in flight or already awaited.
C1_RecordingAfterSubmitFails ==
    [][\A j \in JobIds :
         (HasBeenSubmitted(j) /\ lastOp'.job = j /\ lastOp'.op \in RecordingOps)
           => /\ res' = "IllegalState"
              /\ jobs'[j].commandBuffer = jobs[j].commandBuffer
              /\ jobs'[j].preExecutionTransfers = jobs[j].preExecutionTransfers
              /\ jobs'[j].postExecutionTransfers = jobs[j].postExecutionTransfers]_vars

\* C2: submit on a job whose previous submit was not completed by a successful
\* await fails with IllegalState and has no effect: no pre-execution copy, no fence
\* reset, nothing enqueued, isRecorded and isSubmitted unchanged.
C2_SubmitWhileSubmittedFails ==
    [][\A j \in JobIds :
         (jobs[j].isSubmitted /\ lastOp'.job = j /\ lastOp'.op = "submit")
           => /\ res' = "IllegalState"
              /\ trace' = <<>>
              /\ mem' = mem
              /\ jobs'[j].fence = jobs[j].fence
              /\ inFlight' = inFlight
              /\ jobs'[j].isRecorded = jobs[j].isRecorded
              /\ jobs'[j].isSubmitted = jobs[j].isSubmitted]_vars

\* a second submit was refused while the first was in flight, with an upload queued
C2_Witness ==
    /\ lastOp.op = "submit" /\ res = "IllegalState"
    /\ jobs["J1"].isSubmitted /\ "J1" \in inFlight
    /\ Len(jobs["J1"].preExecutionTransfers) > 0

C4_TimeoutLeavesJobSubmitted ==
    [][\A j \in JobIds :
         /\ (lastOp'.job = j /\ lastOp'.op = "await" /\ trace'[1].result = "VK_TIMEOUT")
              => /\ res' = "false"
                 /\ Calls(trace', "copyDataFromHostVisibleMemory") = {}
                 /\ host' = host
                 /\ jobs'[j] = jobs[j]
         /\ (jobs[j].isSubmitted
               /\ ~(lastOp'.job = j /\ lastOp'.op = "await" /\ res' = "true"))
              => /\ jobs'[j].isSubmitted
                 /\ (lastOp'.job = j /\ lastOp'.op = "submit") => res' = "IllegalState"]_vars

\* an await timed out on a job in flight that has a download queued
C4_Witness ==
    /\ lastOp.op = "await" /\ res = "false"
    /\ trace[1].result = "VK_TIMEOUT"
    /\ jobs["J1"].isSubmitted /\ "J1" \in inFlight
    /\ Len(jobs["J1"].postExecutionTransfers) > 0

\* the host-visible memory -> host copies of a call trace, as transfer records
PostCopies(tr) ==
    [i \in 1..Cardinality(Calls(tr, "copyDataFromHostVisibleMemory")) |->
        LET c == SelectSeq(tr, LAMBDA x : x.api = "copyDataFromHostVisibleMemory")[i]
        IN [deviceBuffer |-> c.deviceBuffer, size |-> c.size, hostBuffer |-> c.hostBuffer]]

PreCopies(tr) ==
    [i \in 1..Cardinality(Calls(tr, "copyDataToHostVisibleMemory")) |->
        LET c == SelectSeq(tr, LAMBDA x : x.api = "copyDataToHostVisibleMemory")[i]
        IN [deviceBuffer |-> c.deviceBuffer, size |-> c.size, hostBuffer |-> c.hostBuffer]]

\* C6: within a successful submit all queued pre-execution copies are made, in
\* recording order, before the fence reset, which precedes the enqueue, the last
\* call; isSubmitted is set only by a submit whose enqueue succeeded.
C6_PreCopiesBeforeEnqueue ==
    \A j \in JobIds :
      /\ (lastOp.job = j /\ lastOp.op = "submit" /\ res = "ok")
           => /\ PreCopies(trace) =
                   [i \in 1..Len(jobs[j].preExecutionTransfers) |->
                      [ deviceBuffer |-> jobs[j].preExecutionTransfers[i].deviceBuffer,
                        size |-> jobs[j].preExecutionTransfers[i].size,
                        hostBuffer |-> jobs[j].preExecutionTransfers[i].hostBuffer ]]
              /\ \E r \in 1..Len(trace) :
                   /\ Calls(trace, "vkResetFences") = {r}
                   /\ Calls(trace, "vkQueueSubmit") = {Len(trace)}
                   /\ r < Len(trace)
                   /\ \A c \in Calls(trace, "copyDataToHostVisibleMemory") : c < r
              /\ \A i \in 1..Len(jobs[j].preExecutionTransfers) :
                   LET t == jobs[j].preExecutionTransfers[i]
                   IN (\A k \in (i + 1)..Len(jobs[j].preExecutionTransfers) :
                          jobs[j].preExecutionTransfers[k].deviceBuffer # t.deviceBuffer)
                      => \A b \in 1..t.size : mem[t.deviceBuffer][b] = host[t.hostBuffer][b]
              /\ jobs[j].isSubmitted /\ j \in inFlight
      /\ (lastOp.job = j /\ lastOp.op = "submit" /\ res \in {"Submission", "Recording"})
           => ~jobs[j].isSubmitted /\ j \notin inFlight
      /\ jobs[j].isSubmitted => jobs[j].isRecorded
      /\ j \in inFlight => jobs[j].isSubmitted

\* a submit succeeded with two uploads queued: both copies, then reset, then enqueue
C6_Witness ==
    /\ lastOp.op = "submit" /\ res = "ok"
    /\ Len(jobs["J1"].preExecutionTransfers) = 2
    /\ Cardinality(Calls(trace, "copyDataToHostVisibleMemory")) = 2
    /\ mem["S1"] = host["p"]

----------------------------------------------------------------------------
(* SpecRoundTrip: one job records uploads and downloads of a DeviceLocal, a  *)
(* Staging and a Uniform buffer, with payloads of every size up to the       *)
(* buffer size, and is then submitted, executed and awaited.                 *)

UploadCall(b, d, sz) ==
    [job |-> "J1", op |-> "syncResourceToDevice", resource |-> b, data |-> d, size |-> sz]

DownloadCall(b, d, sz) ==
    [job |-> "J1", op |-> "syncResourceToHost", resource |-> b, data |-> d, size |-> sz]

\* the job is recorded before its first submit, as the class documents
Recording(j) == jobs[j].nSubmit = 0

NextRoundTrip ==
    \/ Recording("J1") /\ SyncResourceToDevice("J1", MaxRoundTripOps, {"D1", "S1", "U1"},
                                               {"p"}, 1..BufSize)
    \/ Recording("J1") /\ WaitAfterTransfers("J1", MaxRoundTripOps)
    \/ Recording("J1") /\ SyncResourceToHost("J1", MaxRoundTripOps, {"D1", "S1", "U1"},
                                             {"q"}, 1..BufSize)
    \/ Submit("J1", {FALSE}, {TRUE})
    \/ DeviceExecute("J1")
    \/ Await("J1", {"VK_SUCCESS"})

SpecRoundTrip == Init /\ [][NextRoundTrip]_vars

\* C8: for every buffer type and every payload size up to the buffer size, after
\* syncResourceToDevice(buffer, p) followed by syncResourceToHost(buffer, q), with
\* or without waitAfterTransfers, submit and a successful await leave q equal to p.
C8_BufferRoundTrip ==
    \A b \in {"D1", "S1", "U1"}, sz \in 1..BufSize :
      ( /\ SelectSeq(script["J1"], LAMBDA c : c.op # "waitAfterTransfers")
             = <<UploadCall(b, "p", sz), DownloadCall(b, "q", sz)>>
        /\ HasBeenSubmitted("J1")
        /\ lastOp.op = "await" /\ res = "true" )
      => \A i \in 1..sz : host["q"][i] = host["p"][i]

\* the round trip of a full-size payload through the DeviceLocal buffer completed
C8_Witness ==
    /\ script["J1"] = <<UploadCall("D1", "p", BufSize), DownloadCall("D1", "q", BufSize)>>
    /\ HasBeenSubmitted("J1")
    /\ lastOp.op = "await" /\ res = "true"
    /\ host["q"] = host["p"] /\ host["q"] # Zeros(BufSize)

----------------------------------------------------------------------------
(* SpecCopy: uploads, buffer-to-buffer copies and downloads over DeviceLocal *)
(* and Staging buffers, recorded in any order, then submit, execution, await *)

CopyCall(src, dst) == [job |-> "J1", op |-> "syncResources", src |-> src, dst |-> dst]

NextCopy ==
    \/ Recording("J1") /\ SyncResourceToDevice("J1", MaxCopyOps, {"D1", "S1"}, {"p"}, {BufSize})
    \/ Recording("J1") /\ SyncResources("J1", MaxCopyOps, {"D1", "S1"} \X {"D2", "S2"})
    \/ Recording("J1") /\ SyncResourceToHost("J1", MaxCopyOps, {"D2", "S2"}, {"q"}, {BufSize})
    \/ Submit("J1", {FALSE}, {TRUE})
    \/ DeviceExecute("J1")
    \/ Await("J1", {"VK_SUCCESS"})

SpecCopy == Init /\ [][NextCopy]_vars

\* C9: for every pair of source and destination types in {DeviceLocal, Staging},
\* upload p to src, syncResources(src, dst), download dst, submit and a successful
\* await leave q equal to p: the device copy sees the upload and the download sees
\* the device copy, however the device resolves unsynchronised accesses.
C9_CopyBetweenBuffers ==
    \A src \in {"D1", "S1"}, dst \in {"D2", "S2"} :
      ( /\ script["J1"] = <<UploadCall(src, "p", BufSize), CopyCall(src, dst),
                            DownloadCall(dst, "q", BufSize)>>
        /\ HasBeenSubmitted("J1")
        /\ lastOp.op = "await" /\ res = "true" )
      => /\ host["q"] = host["p"]
         /\ mem[dst] = host["p"]

\* p went from the host through D1 and a device copy into S2 and back to the host
C9_Witness ==
    /\ script["J1"] = <<UploadCall("D1", "p", BufSize), CopyCall("D1", "S2"),
                        DownloadCall("S2", "q", BufSize)>>
    /\ HasBeenSubmitted("J1")
    /\ lastOp.op = "await" /\ res = "true"
    /\ host["q"] = host["p"] /\ host["q"] # Zeros(BufSize)

----------------------------------------------------------------------------
(* SpecResubmit: a job that uploads p, runs the sum task and downloads the   *)
(* result is recorded once and submitted and awaited repeatedly, the user    *)
(* changing p between the iterations.                                        *)

TaskCall(t, bs) == [job |-> "J1", op |-> "addTask", task |-> t, resources |-> bs]

NextResubmit ==
    \/ Recording("J1") /\ SyncResourceToDevice("J1", MaxCopyOps, {"D1"}, {"p"}, {BufSize})
    \/ Recording("J1") /\ AddTaskWith("J1", MaxCopyOps, {"sum"}, {<<List(<<"D1", "D2">>)>>})
    \/ Recording("J1") /\ SyncResourceToHost("J1", MaxCopyOps, {"D2"}, {"q"}, {BufSize})
    \/ Submit("J1", {FALSE}, {TRUE})
    \/ DeviceExecute("J1")
    \/ Await("J1", {"VK_SUCCESS", "VK_TIMEOUT"})
    \/ HostWrite("p")

SpecResubmit == Init /\ [][NextResubmit]_vars

\* the job of the "Multiple submit" test: D2 receives D1 + D2
SumJob ==
    <<UploadCall("D1", "p", BufSize), TaskCall("sum", <<List(<<"D1", "D2">>)>>),
      DownloadCall("D2", "q", BufSize)>>

\* transfer i of list is the last one of the list that targets what Target(i) names
LastFor(list, i, Target(_)) ==
    \A k \in (i + 1)..Len(list) : Target(list[k]) # Target(list[i])

\* C7: submit and await leave both transfer lists as recorded; every successful
\* submit copies each upload's host source as it is at that submit, every successful
\* await copies each download's device data to its host destination, and for the
\* recorded sum job every await that completes a submission adds the current p to
\* the result of the iteration before.
C7_ResubmitReplaysTransfers ==
    [][\A j \in JobIds :
         /\ (lastOp'.job = j /\ lastOp'.op \in {"submit", "await"})
              => /\ jobs'[j].preExecutionTransfers = jobs[j].preExecutionTransfers
                 /\ jobs'[j].postExecutionTransfers = jobs[j].postExecutionTransfers
                 /\ jobs'[j].commandBuffer = jobs[j].commandBuffer
         /\ (lastOp'.job = j /\ lastOp'.op = "submit" /\ res' = "ok")
              => \A i \in 1..Len(jobs[j].preExecutionTransfers) :
                    LET t == jobs[j].preExecutionTransfers[i]
                    IN LastFor(jobs[j].preExecutionTransfers, i, LAMBDA x : x.deviceBuffer)
                       => \A b \in 1..t.size : mem'[t.deviceBuffer][b] = host[t.hostBuffer][b]
         /\ (lastOp'.job = j /\ lastOp'.op = "await" /\ res' = "true")
              => \A i \in 1..Len(jobs[j].postExecutionTransfers) :
                    LET t == jobs[j].postExecutionTransfers[i]
                    IN LastFor(jobs[j].postExecutionTransfers, i, LAMBDA x : x.hostBuffer)
                       => \A b \in 1..t.size : host'[t.hostBuffer][b] = mem[t.deviceBuffer][b]
         /\ (lastOp'.job = j /\ lastOp'.op = "await" /\ res' = "true"
               /\ jobs[j].isSubmitted /\ script[j] = SumJob)
              => \A b \in 1..BufSize :
                    host'["q"][b] = (host["q"][b] + host["p"][b]) % Cardinality(Byte)]_vars

\* the sum job completed its second iteration with a p that differs from the first
\* iteration's: q holds the sum of both
C7_Witness ==
    /\ script["J1"] = SumJob
    /\ jobs["J1"].nSubmit = 2
    /\ lastOp.op = "await" /\ res = "true"
    /\ host["q"] \notin Inputs /\ host["q"] # Zeros(BufSize)
    /\ Len(jobs["J1"].preExecutionTransfers) = 1
    /\ Len(jobs["J1"].postExecutionTransfers) = 1

----------------------------------------------------------------------------
(* SpecDep: tasks over one buffer each, recorded with the dependency tracker *)
(* on or off, and waitForTasksFinish as the user's own barrier.              *)

NextDep ==
    \/ SetAutoDataDependencyManagement("J1")
    \/ AddTaskWith("J1", MaxDepOps, {"inc", "rd", "unused"},
                   {<<List(<<"D1">>)>>, <<List(<<"D2">>)>>})
    \/ WaitForTasksFinish("J1", MaxDepOps)

SpecDep == Init /\ [][NextDep]_vars

\* the pipeline and descriptor sets bound after the first k commands
RECURSIVE BoundAt(_, _)
BoundAt(cmds, k) ==
    IF k = 0 THEN DeviceStart(mem)
    ELSE LET st == BoundAt(cmds, k - 1)
         IN IF cmds[k].cmd \in {"BindPipeline", "BindDescriptorSets"}
            THEN DeviceStep(st, cmds[k], FALSE)
            ELSE st

\* command k is a dispatch whose shader accesses buffer a with one of the given bits
DispatchAccesses(cmds, k, a, bit) ==
    /\ cmds[k].cmd = "Dispatch"
    /\ \E u \in DispatchBindings(BoundAt(cmds, k)) : u[1] = a /\ BitAnd(u[2], bit) # 0

\* a barrier the user recorded: it names no single buffer or image
UserBarrier(c) ==
    c.cmd = "PipelineBarrier" /\ c.bufferBarriers = <<>> /\ c.imageBarriers = <<>>

\* a buffer memory barrier on a that makes compute-shader writes available
GuardsShaderWrite(c, a) ==
    /\ c.cmd = "PipelineBarrier"
    /\ "COMPUTE_SHADER" \in c.srcStageMask
    /\ \E i \in 1..Len(c.bufferBarriers) :
         c.bufferBarriers[i].buffer = a /\ "SHADER_WRITE" \in c.bufferBarriers[i].srcAccessMask

----------------------------------------------------------------------------
(* SpecTrack: transfers and tasks that read or write the buffers D1 and D2,  *)
(* recorded in any order with the dependency tracker on.                     *)

NextTrack ==
    \/ SyncResourceToDevice("J1", MaxTrackOps, {"D1"}, {"p"}, {BufSize})
    \/ SyncResourceToHost("J1", MaxTrackOps, {"D1"}, {"q"}, {BufSize})
    \/ SyncResources("J1", MaxTrackOps, {<<"D1", "D2">>, <<"D2", "D1">>})
    \/ AddTaskWith("J1", MaxTrackOps, {"rd", "inc"}, {<<List(<<"D1">>)>>})

SpecTrack == Init /\ [][NextTrack]_vars

\* the access flags a recording call passes to the tracker for buffer a, or-ed
CallAccess(call, a) ==
    CASE call.op = "syncResourceToDevice" ->
            IF call.resource = a /\ Resource(a).bufferType = "DeviceLocal" THEN Write ELSE None
      [] call.op = "syncResourceToHost" ->
            IF call.resource = a /\ Resource(a).bufferType = "DeviceLocal" THEN Read ELSE None
      [] call.op = "syncResources" ->
            BitOr(IF call.src = a THEN Read ELSE None, IF call.dst = a THEN Write ELSE None)
      [] call.op = "addTask" ->
            LET uses == { <<s, b>> \in (1..Len(call.resources)) \X (1..MaxBindings) :
                        /\ s <= Len(TaskFlags(call.task))
                        /\ b <= Len(call.resources[s].resources)
                        /\ b <= Len(TaskFlags(call.task)[s])
                        /\ call.resources[s].resources[b] = a }
            IN IF \E u \in uses : BitAnd(TaskFlags(call.task)[u[1]][u[2]], Write) # 0
               THEN IF \E u \in uses : BitAnd(TaskFlags(call.task)[u[1]][u[2]], Read) # 0
                    THEN BitOr(Read, Write) ELSE Write
               ELSE IF \E u \in uses : BitAnd(TaskFlags(call.task)[u[1]][u[2]], Read) # 0
                    THEN Read ELSE None
      [] OTHER -> None

\* C11: when an operation that only reads buffer a directly follows a successful
\* operation that only reads a, the second one records no buffer memory barrier
\* for a.
C11_NoBarrierBetweenReads ==
    [][\A a \in Buffers :
         ( /\ lastOp.job = "J1" /\ res = "ok" /\ CallAccess(lastOp, a) = Read
           /\ script'["J1"] # script["J1"]
           /\ CallAccess(lastOp', a) = Read )
         => \A k \in (Len(jobs["J1"].commandBuffer) + 1)..Len(jobs'["J1"].commandBuffer) :
              LET c == jobs'["J1"].commandBuffer[k]
              IN c.cmd = "PipelineBarrier"
                 => \A i \in 1..Len(c.bufferBarriers) :
                       c.bufferBarriers[i].buffer # Resource(a).handle]_vars

\* a download of D1 followed by a task that only reads D1: both recorded, the task
\* adding its bind and dispatch commands and nothing else
C11_Witness ==
    /\ Len(script["J1"]) = 3
    /\ script["J1"][1].op = "syncResourceToDevice"
    /\ script["J1"][2].op = "syncResourceToHost"
    /\ script["J1"][3].op = "addTask" /\ script["J1"][3].task = "rd"
    /\ res = "ok"
    /\ jobs["J1"].unguardedResourceAccess["D1"].accessType = Read
    /\ Cardinality({k \in 1..Len(jobs["J1"].commandBuffer) :
                      jobs["J1"].commandBuffer[k].cmd = "PipelineBarrier"}) = 1

----------------------------------------------------------------------------
(* SpecBind: resources are placed at the set indices 0, 1 and 2 in any order *)
(* and a task with three descriptor sets is dispatched.                      *)

SetIndices == {0, 1, 2}

NextBind ==
    \/ UseResources("J1", MaxBindOps, SetIndices, {List(<<"D1">>), List(<<"D2">>)})
    \/ AddTask("J1", MaxBindOps, {"tri"})

SpecBind == Init /\ [][NextBind]_vars

\* the maximal runs of consecutive numbers of S, as <<first, length>>
MaximalRuns(S) ==
    { <<f, n>> \in S \X (1..Cardinality(S)) :
        /\ (f - 1) \notin S
        /\ \A i \in f..(f + n - 1) : i \in S
        /\ (f + n) \notin S }

\* the positions in cmds, after the first from commands, of the descriptor-set binds
BindsAfter(cmds, from) ==
    { k \in (from + 1)..Len(cmds) : cmds[k].cmd = "BindDescriptorSets" }

\* C12: a successful addTask records one descriptor-set bind per maximal run of
\* consecutive pending set indices, in ascending order of first index, each with
\* the run's first index as firstSet and the run's length as its count and holding
\* the run's bindings in index order; without pending bindings it records none.
C12_OneBindPerRun ==
    [][( lastOp'.job = "J1" /\ lastOp'.op = "addTask" /\ res' = "ok"
         /\ script'["J1"] # script["J1"] )
       => LET pending == jobs["J1"].pendingBindings
              cmds == jobs'["J1"].commandBuffer
              binds == BindsAfter(cmds, Len(jobs["J1"].commandBuffer))
          IN /\ { <<cmds[k].firstSet, Len(cmds[k].descriptorSets)>> : k \in binds }
                   = MaximalRuns(DOMAIN pending)
             /\ Cardinality(binds) = Cardinality(MaximalRuns(DOMAIN pending))
             /\ \A k1, k2 \in binds : k1 < k2 => cmds[k1].firstSet < cmds[k2].firstSet
             /\ \A k \in binds : \A i \in 1..Len(cmds[k].descriptorSets) :
                   cmds[k].descriptorSets[i].resources
                     = pending[cmds[k].firstSet + i - 1].resources
             /\ jobs'["J1"].pendingBindings = EmptyMap]_vars

\* sets 0 and 2 were pending, set 1 was not: the dispatch bound them with two calls
C12_Witness ==
    /\ Len(script["J1"]) = 3
    /\ script["J1"][1].op = "useResources" /\ script["J1"][1].index = 2
    /\ script["J1"][2].op = "useResources" /\ script["J1"][2].index = 0
    /\ script["J1"][3].op = "addTask" /\ res = "ok"
    /\ LET cmds == jobs["J1"].commandBuffer
       IN /\ Cardinality(BindsAfter(cmds, 0)) = 2
          /\ \E k1, k2 \in BindsAfter(cmds, 0) :
                /\ k1 < k2
                /\ cmds[k1].firstSet = 0 /\ Len(cmds[k1].descriptorSets) = 1
                /\ cmds[k2].firstSet = 2 /\ Len(cmds[k2].descriptorSets) = 1

----------------------------------------------------------------------------
(* SpecLayout: tasks with one set of one binding (rd) or of two bindings     *)
(* (sum) are dispatched with binding lists of one to three buffers, or with  *)
(* lists for two sets, the dependency tracker on or off.                     *)

BindingLists ==
    { <<List(<<"D1">>)>>, <<List(<<"D1", "D2">>)>>, <<List(<<"D1", "D2", "S1">>)>>,
      <<List(<<"D1">>), List(<<"D2">>)>> }

NextLayout ==
    \/ SetAutoDataDependencyManagement("J1")
    \/ AddTaskWith("J1", MaxLayoutOps, {"rd", "sum"}, BindingLists)

SpecLayout == Init /\ [][NextLayout]_vars

\* the pending bindings a call of the addTask overload dispatches with
PendingFor(J, call) == UseAll(J, call.resources, 1).pendingBindings

\* some pending binding has exactly one resource more than its set has bindings
OverLongByOne(task, pending) ==
    \E pos \in DOMAIN pending :
        /\ pos < Len(TaskFlags(task))
        /\ Len(pending[pos].resources) = Len(TaskFlags(task)[pos + 1]) + 1

OverLong(task, pending) ==
    \E pos \in DOMAIN pending :
        /\ pos < Len(TaskFlags(task))
        /\ Len(pending[pos].resources) > Len(TaskFlags(task)[pos + 1])

OverShort(task, pending) ==
    \E pos \in DOMAIN pending :
        /\ pos < Len(TaskFlags(task))
        /\ Len(pending[pos].resources) < Len(TaskFlags(task)[pos + 1])

OutOfLayout(task, pending) ==
    \E pos \in DOMAIN pending : pos >= Len(TaskFlags(task))

AddTaskStep(j) ==
    lastOp'.job = j /\ lastOp'.op = "addTask" /\ script'[j] # script[j]

\* C13: an addTask whose pending bindings give some set one resource more than
\* the set's reflected layout has bindings fails with LayoutMismatch, with the
\* dependency tracker on or off.
C13_OverLongBindingFails ==
    [][( AddTaskStep("J1")
         /\ OverLongByOne(lastOp'.task, PendingFor(jobs["J1"], lastOp')) )
       => res' = "LayoutMismatch"]_vars

----------------------------------------------------------------------------
(* SpecImage: the job of the image example: images are uploaded or prepared, *)
(* bound to a task that reads its first and writes its second binding or to  *)
(* a read-only task, and downloaded, with the dependency tracker on.         *)

NextImage ==
    \/ SyncResourceToDevice("J1", MaxImageOps, Images, {"p", NULL},
                            {0, ImgWidth * ImgHeight * 4})
    \/ AddTaskWith("J1", MaxImageOps, {"edge"},
                   {<<List(<<"I1", "I2">>)>>, <<List(<<"I2", "I1">>)>>})
    \/ AddTaskWith("J1", MaxImageOps, {"rd"}, {<<List(<<"I1">>)>>})
    \/ SyncResourceToHost("J1", MaxImageOps, Images, {"q"}, {ImgWidth * ImgHeight * 4})

SpecImage == Init /\ [][NextImage]_vars

\* the images among the pending bindings
PendingImages(pending) ==
    { r \in Images : \E pos \in DOMAIN pending :
        \E i \in 1..Len(pending[pos].resources) : pending[pos].resources[i] = r }

\* C15 as stated: with the dependency tracker on, every addTask whose pending
\* bindings contain an image fails with UnsupportedResourceType.
C15_EveryImageDispatchFails ==
    [][( AddTaskStep("J1") /\ jobs["J1"].autoDataDependencyManagement
         /\ PendingImages(PendingFor(jobs["J1"], lastOp')) # {} )
       => res' = "UnsupportedResourceType"]_vars

\* C15: with the dependency tracker on, an addTask whose pending bindings contain
\* images fails with UnsupportedResourceType exactly when the tracker already holds
\* an access of one of these images, left by an earlier dispatch of the job, and
\* that access and the new one are not both Read and neither is None.  The first
\* dispatch that uses an image succeeds and is recorded, whatever transfers of the
\* image came before it.
C15_ImageFailsOnTrackedReuse ==
    [][( AddTaskStep("J1") /\ jobs["J1"].autoDataDependencyManagement
         /\ PendingImages(PendingFor(jobs["J1"], lastOp')) # {} )
       => LET tracked == jobs["J1"].unguardedResourceAccess
              cmds == jobs'["J1"].commandBuffer
          IN /\ res' \in {"ok", "UnsupportedResourceType"}
             /\ res' = "UnsupportedResourceType"
                   <=> \E r \in PendingImages(PendingFor(jobs["J1"], lastOp')) :
                         /\ r \in DOMAIN tracked
                         /\ ~(tracked[r].accessType = Read /\ CallAccess(lastOp', r) = Read)
                         /\ tracked[r].accessType # None
                         /\ CallAccess(lastOp', r) # None
             /\ (\A k \in 1..Len(script["J1"]) : script["J1"][k].op # "addTask")
                   => /\ res' = "ok"
                      /\ cmds[Len(cmds)].cmd = "Dispatch"]_vars

\* the recording of the image example: upload the input image, prepare the output
\* image, dispatch; the dispatch is the first use of both images and succeeds
C15_Witness ==
    /\ jobs["J1"].autoDataDependencyManagement
    /\ Len(script["J1"]) = 3
    /\ script["J1"][1] = [job |-> "J1", op |-> "syncResourceToDevice", resource |-> "I1",
                          data |-> "p", size |-> ImgWidth * ImgHeight * 4]
    /\ script["J1"][2] = [job |-> "J1", op |-> "syncResourceToDevice", resource |-> "I2",
                          data |-> NULL, size |-> 0]
    /\ script["J1"][3] = TaskCall("edge", <<List(<<"I1", "I2">>)>>)
    /\ res = "ok"
    /\ jobs["J1"].commandBuffer[Len(jobs["J1"].commandBuffer)].cmd = "Dispatch"
    /\ {"I1", "I2"} \subseteq DOMAIN jobs["J1"].unguardedResourceAccess

----------------------------------------------------------------------------
(* SpecExternal: J2 wraps a command buffer of the user's, in the recording   *)
(* state; transfers are recorded into it and submit and await are called.    *)

InitExternal ==
    /\ jobs = [j \in JobIds |-> IF j = "J2" THEN ExternalJob ELSE NewJob]
    /\ layout = [i \in Images |-> "UNDEFINED"]
    /\ deviceLayout = [i \in Images |-> "UNDEFINED"]
    /\ manager = ManagerOf(CreatedResources, {"J1"}, ShaderPaths)
    /\ mem = [m \in MemIds |-> Zeros(MemSize(m))]
    /\ host \in {h \in [HostVars -> Payloads] : h["p"] \in Inputs /\ h["q"] = Zeros(BufSize)}
    /\ inFlight = {}
    /\ lastOp = [job |-> NULL, op |-> "init"]
    /\ res = "ok"
    /\ trace = <<>>
    /\ script = [j \in JobIds |-> <<>>]

NextExternal ==
    \/ SyncResourceToDevice("J2", MaxExternalOps, {"D1", "S1"}, {"p"}, {BufSize})
    \/ SyncResourceToHost("J2", MaxExternalOps, {"D1", "S1"}, {"q"}, {BufSize})
    \/ Submit("J2", {FALSE}, BOOLEAN)
    \/ Await("J2", {"VK_SUCCESS", "VK_TIMEOUT", "VK_ERROR_DEVICE_LOST"})

SpecExternal == InitExternal /\ [][NextExternal]_vars

\* C16: submit and await on a job that wraps an external command buffer fail with
\* IllegalState without calling the API: the command buffer is not closed, nothing
\* is copied or enqueued and no fence is waited on.
C16_ExternalJobRejectsSubmitAndAwait ==
    \A j \in JobIds :
      ( /\ jobs[j].computeQueue = NULL /\ jobs[j].fence = NULL
        /\ lastOp.job = j /\ lastOp.op \in {"submit", "await"} )
      => /\ res = "IllegalState"
         /\ trace = <<>>
         /\ jobs[j].cbState = "recording"
         /\ ~jobs[j].isRecorded /\ ~jobs[j].isSubmitted
         /\ j \notin inFlight

----------------------------------------------------------------------------
(* SpecDefault: uploads and downloads of a resource of every kind, with the  *)
(* size argument given or left to its default, UINT64_MAX.                   *)

OneOfEachKind == {"D1", "S1", "U1", "I1"}

NextDefault ==
    \/ SyncResourceToDevice("J1", MaxDefaultOps, OneOfEachKind, {"p"},
                            {BufSize, ImgWidth * ImgHeight * 4, UINT64_MAX})
    \/ SyncResourceToHost("J1", MaxDefaultOps, OneOfEachKind, {"q"},
                          {BufSize, ImgWidth * ImgHeight * 4, UINT64_MAX})

SpecDefault == Init /\ [][NextDefault]_vars

\* C17: a syncResourceToDevice or syncResourceToHost call made with the default
\* size has the outcome of the same call made with the full size of the resource:
\* the same error or success, the same recorded commands and queued transfers and
\* the same image layout, for DeviceLocal, Staging and Uniform buffers and images.
C17_DefaultSizeIsFullSize ==
    [][( lastOp'.job = "J1" /\ script'["J1"] # script["J1"]
         /\ lastOp'.op \in {"syncResourceToDevice", "syncResourceToHost"}
         /\ lastOp'.size = UINT64_MAX )
       => LET r == lastOp'.resource
              full == IF lastOp'.op = "syncResourceToDevice"
                      THEN syncResourceToDevice(jobs["J1"], layout, r, lastOp'.data,
                                                Resource(r).size)
                      ELSE syncResourceToHost(jobs["J1"], layout, r, lastOp'.data,
                                              Resource(r).size)
          IN /\ res' = full.err
             /\ jobs'["J1"] = full.job
             /\ layout' = full.layout]_vars

----------------------------------------------------------------------------
(* SpecSize: downloads of a buffer of each type with sizes below, at and     *)
(* above the buffer's size, then submit, execution and await.                *)

DownloadSizes == {1, BufSize, BufSize + 1, UINT64_MAX}

NextSize ==
    \/ Recording("J1")
         /\ SyncResourceToHost("J1", MaxSizeOps, {"D1", "S1", "U1"}, {"q"}, DownloadSizes)
    \/ Submit("J1", {FALSE}, {TRUE})
    \/ DeviceExecute("J1")
    \/ Await("J1", {"VK_SUCCESS"})

SpecSize == Init /\ [][NextSize]_vars

\* C18: the host copies an await makes are, in order, those of the job's
\* syncResourceToHost calls, and each copies min(size, buffer size) bytes of the
\* call's buffer, never more than the buffer has.
C18_DownloadCopiesAtMostBuffer ==
    ( lastOp.job = "J1" /\ lastOp.op = "await" /\ res = "true"
      /\ HasBeenSubmitted("J1") )
    => LET downloads == SelectSeq(script["J1"], LAMBDA c : c.op = "syncResourceToHost")
           copies == SelectSeq(trace, LAMBDA c : c.api = "copyDataFromHostVisibleMemory")
       IN /\ Len(copies) = Len(downloads)
          /\ \A k \in 1..Len(copies) :
                /\ copies[k].size = Min(downloads[k].size, Resource(downloads[k].resource).size)
                /\ copies[k].size <= MemSize(copies[k].deviceBuffer)

----------------------------------------------------------------------------
(* SpecCreate: the manager starts without resources; buffers of the three    *)
(* types and images are created, each creation allocating the memory of the  *)
(* resource and of its staging shadow, if it gets one.                       *)

BufferTypes == {"DeviceLocal", "Staging", "Uniform"}

InitCreate ==
    /\ jobs = [j \in JobIds |-> NewJob]
    /\ layout = EmptyMap
    /\ deviceLayout = EmptyMap
    /\ manager = ManagerOf(<<>>, JobIds, ShaderPaths)
    /\ mem = EmptyMap
    /\ host \in {h \in [HostVars -> Payloads] : h["p"] \in Inputs /\ h["q"] = Zeros(BufSize)}
    /\ inFlight = {}
    /\ lastOp = [job |-> NULL, op |-> "init"]
    /\ res = "ok"
    /\ trace = <<>>
    /\ script = [j \in JobIds |-> <<>>]

\* memory is allocated for the resource and for the staging shadow it was given
Allocate(M, R) ==
    LET own == Put(M, R.handle, Zeros(R.size))
    IN IF R.stagingBuffer # NULL
       THEN Put(own, R.staging.handle, Zeros(R.staging.size))
       ELSE own

CreateBuffer(Ids, Sizes, Types) ==
    \E id \in Ids \ DOMAIN mem, size \in Sizes, type \in Types :
        LET B == createBuffer(id, size, type)
        IN /\ mem' = Allocate(mem, B)
           /\ lastOp' = [job |-> NULL, op |-> "createBuffer", size |-> size,
                         type |-> type, result |-> B]
           /\ res' = "ok"
           /\ trace' = <<>>
           /\ manager' = TrackBuffer(manager, B)
           /\ UNCHANGED <<jobs, layout, deviceLayout, host, inFlight, script>>

CreateImage(Ids, Widths, Heights) ==
    \E id \in Ids \ DOMAIN mem, width \in Widths, height \in Heights :
        LET I == createImage(id, width, height)
        IN /\ mem' = Allocate(mem, I)
           /\ layout' = Put(layout, id, "UNDEFINED")
           /\ deviceLayout' = Put(deviceLayout, id, "UNDEFINED")
           /\ lastOp' = [job |-> NULL, op |-> "createImage", width |-> width,
                         height |-> height, result |-> I]
           /\ res' = "ok"
           /\ trace' = <<>>
           /\ manager' = TrackImage(manager, I)
           /\ UNCHANGED <<jobs, host, inFlight, script>>

NextCreate ==
    \/ CreateBuffer({"D1", "D2"}, {1, BufSize, BufSize + 1}, BufferTypes)
    \/ CreateImage({"I1", "I2"}, {ImgWidth, ImgWidth + 1}, {ImgHeight, ImgHeight + 1})

SpecCreate == InitCreate /\ [][NextCreate]_vars

\* R comes with a staging shadow of the given size, of type Staging, that has
\* memory of that size
HasShadow(R, size) ==
    /\ R.stagingBuffer # NULL
    /\ R.staging.handle = R.stagingBuffer
    /\ R.staging.bufferType = "Staging"
    /\ R.staging.size = size

\* C19: a buffer created DeviceLocal has a staging shadow of type Staging and of
\* the buffer's size; a buffer created Staging or Uniform has none, and no memory
\* is allocated for one; an image has a staging shadow of width * height * 4 bytes.
C19_StagingShadows ==
    /\ lastOp.op = "createBuffer" =>
          LET B == lastOp.result
          IN /\ B.size = lastOp.size /\ B.bufferType = lastOp.type
             /\ lastOp.type = "DeviceLocal"
                   => /\ HasShadow(B, lastOp.size)
                      /\ B.stagingBuffer \in DOMAIN mem
                      /\ Len(mem[B.stagingBuffer]) = lastOp.size
             /\ lastOp.type \in {"Staging", "Uniform"}
                   => /\ B.stagingBuffer = NULL
                      /\ StagingName(B.handle) \notin DOMAIN mem
    /\ lastOp.op = "createImage" =>
          LET I == lastOp.result
          IN /\ HasShadow(I, lastOp.width * lastOp.height * 4)
             /\ I.stagingBuffer \in DOMAIN mem
             /\ Len(mem[I.stagingBuffer]) = lastOp.width * lastOp.height * 4
    /\ \A id \in DeviceLocalBuffers : HasShadow(Resource(id), BufSize)
    /\ \A id \in StagingBuffers \cup UniformBuffers : Resource(id).stagingBuffer = NULL
    /\ \A id \in Images : HasShadow(Resource(id), ImgWidth * ImgHeight * 4)

\* a DeviceLocal buffer, a buffer without shadow and both images exist; the last image
\* created is larger than one pixel
C19_Witness ==
    /\ lastOp.op = "createImage"
    /\ lastOp.width * lastOp.height > 1
    /\ Len(mem[lastOp.result.stagingBuffer]) = lastOp.width * lastOp.height * 4
    /\ DOMAIN mem = {"D1", "D1s", "D2", "I1", "I1s", "I2", "I2s"}

----------------------------------------------------------------------------
(* SpecLive: a job is recorded, then submitted, polled with await(0) and     *)
(* awaited without timeout, repeatedly.  The API calls succeed, the device   *)
(* finishes every enqueued submission and the user does call the blocking    *)
(* await, which returns once the fence is signaled.                          *)

AwaitForever(j) == AwaitWithin(j, {UINT64_MAX}, {"VK_SUCCESS"})

NextLive ==
    \/ Recording("J1") /\ SyncResourceToDevice("J1", MaxLiveOps, {"D1"}, {"p"}, {BufSize})
    \/ Recording("J1") /\ SyncResourceToHost("J1", MaxLiveOps, {"D1"}, {"q"}, {BufSize})
    \/ Submit("J1", {FALSE}, {TRUE})
    \/ DeviceExecute("J1")
    \/ AwaitWithin("J1", {0}, {"VK_SUCCESS", "VK_TIMEOUT"})
    \/ AwaitForever("J1")

SpecLive ==
    /\ Init /\ [][NextLive]_vars
    /\ WF_vars(DeviceExecute("J1"))
    /\ WF_vars(AwaitForever("J1"))

----------------------------------------------------------------------------
(* SpecSignal: a recorded job is submitted with and without the signal flag, *)
(* executed and awaited, repeatedly; vkQueueSubmit may fail.                 *)

NextSignal ==
    \/ Recording("J1") /\ SyncResourceToDevice("J1", MaxSignalOps, {"D1", "S1"}, {"p"}, {BufSize})
    \/ Submit("J1", BOOLEAN, BOOLEAN)
    \/ DeviceExecute("J1")
    \/ Await("J1", {"VK_SUCCESS"})

SpecSignal == Init /\ [][NextSignal]_vars

\* C21: a successful submit returns a semaphore exactly when signal is true, and
\* then it is the job's signal semaphore, the one handed to vkQueueSubmit; only a
\* signalling submit creates a semaphore, and only when the job has none, so a job
\* never created more than one; a submit without signal hands no signal semaphore
\* to vkQueueSubmit, whether or not the job has one.
C21_SignalSemaphore ==
    /\ jobs["J1"].nSemaphores <= 1
    /\ jobs["J1"].signalSemaphore # NULL <=> jobs["J1"].nSemaphores = 1
    /\ (lastOp.job = "J1" /\ lastOp.op = "submit") =>
          /\ Calls(trace, "createSemaphore") # {} => lastOp.signal
          /\ \A i \in Calls(trace, "vkQueueSubmit") :
                trace[i].signalSemaphore
                  = IF lastOp.signal THEN jobs["J1"].signalSemaphore ELSE NULL
          /\ res = "ok" =>
                /\ lastOp.semaphore # NULL <=> lastOp.signal
                /\ lastOp.signal => /\ lastOp.semaphore = jobs["J1"].signalSemaphore
                                    /\ jobs["J1"].nSemaphores = 1
                /\ Calls(trace, "vkQueueSubmit") # {}

\* the second signalling submit of the job reused the semaphore of the first
C21_Witness ==
    /\ lastOp.job = "J1" /\ lastOp.op = "submit" /\ lastOp.signal /\ res = "ok"
    /\ jobs["J1"].nSubmit = 2
    /\ jobs["J1"].nSemaphores = 1
    /\ lastOp.semaphore = jobs["J1"].signalSemaphore
    /\ Calls(trace, "createSemaphore") = {}

----------------------------------------------------------------------------
(* SpecAlias: the buffer D1 is used through the Buffer object it was created *)
(* as and through a copy of that object, in transfers and tasks.             *)

NextAlias ==
    \/ SyncResourceToDevice("J1", MaxAliasOps, {"D1", "D1c"}, {"p"}, {BufSize})
    \/ SyncResourceToHost("J1", MaxAliasOps, {"D1", "D1c"}, {"q"}, {BufSize})
    \/ AddTaskWith("J1", MaxAliasOps, {"inc", "rd"}, {<<List(<<"D1">>)>>, <<List(<<"D1c">>)>>})

SpecAlias == Init /\ [][NextAlias]_vars

\* C22: when a successful operation writes a buffer through one Buffer object and
\* the next operation reads the same buffer (same ID, same device buffer) through
\* that object or through a copy of it, the second operation records a buffer
\* memory barrier for the buffer.
C22_TrackerKeyedByResourceId ==
    [][\A a, b \in {"D1", "D1c"} :
         ( /\ lastOp.job = "J1" /\ res = "ok"
           /\ BitAnd(CallAccess(lastOp, a), Write) # 0
           /\ script'["J1"] # script["J1"] /\ res' = "ok"
           /\ BitAnd(CallAccess(lastOp', b), Read) # 0 )
         => \E k \in (Len(jobs["J1"].commandBuffer) + 1)..Len(jobs'["J1"].commandBuffer) :
              LET c == jobs'["J1"].commandBuffer[k]
              IN /\ c.cmd = "PipelineBarrier"
                 /\ \E i \in 1..Len(c.bufferBarriers) :
                       c.bufferBarriers[i].buffer = Resource(b).handle]_vars

----------------------------------------------------------------------------
(* SpecShare: job J1 records uploads and preparations of the image I1, job *)
(* J2 downloads of it; the jobs are submitted, executed and awaited in any *)
(* order, more than once.                                                  *)

ImageBytes == ImgWidth * ImgHeight * 4

NextShare ==
    \/ Recording("J1") /\ SyncResourceToDevice("J1", MaxShareOps, {"I1"}, {"p", NULL}, {ImageBytes})
    \/ Recording("J2") /\ SyncResourceToHost("J2", MaxShareOps, {"I1"}, {"q"}, {ImageBytes})
    \/ \E j \in JobIds : Submit(j, {FALSE}, {TRUE})
    \/ \E j \in JobIds : DeviceExecute(j)
    \/ \E j \in JobIds : Await(j, {"VK_SUCCESS"})

SpecShare == Init /\ [][NextShare]_vars

\* C23: whenever the device executes a job's command buffer, every layout
\* transition and every copy in it that touches an image finds the image in the
\* layout the host tracked for it when the command was recorded.
C23_DeviceLayoutAsRecorded ==
    [][\A j \in JobIds :
         (j \in inFlight /\ j \notin inFlight')
         => LayoutsAsRecorded(jobs[j].commandBuffer, 1, deviceLayout)]_vars

----------------------------------------------------------------------------
(* The tracker's entry after a tracked operation, checked under SpecTrack *)

\* the stage at which a recording call accesses its resources
CallStage(call) == IF call.op = "addTask" THEN "Task" ELSE "Transfer"

\* C24: after every successful recording operation that reads or writes buffer a,
\* the tracker's entry for a is the access the operation asked for at the
\* operation's stage.
C24_EntryIsLastAccess ==
    \A a \in Buffers :
        ( /\ lastOp.job = "J1" /\ lastOp.op \in RecordingOps /\ res = "ok"
          /\ jobs["J1"].autoDataDependencyManagement
          /\ CallAccess(lastOp, a) # None )
        => /\ a \in DOMAIN jobs["J1"].unguardedResourceAccess
           /\ jobs["J1"].unguardedResourceAccess[a]
                = TrackedAccess(CallAccess(lastOp, a), CallStage(lastOp))

----------------------------------------------------------------------------
(* SpecWait: uploads and downloads of D1 and tasks that read and write it, *)
(* with waitForTasksFinish called between them, the dependency tracker on. *)

NextWait ==
    \/ SyncResourceToDevice("J1", MaxWaitOps, {"D1"}, {"p"}, {BufSize})
    \/ SyncResourceToHost("J1", MaxWaitOps, {"D1"}, {"q"}, {BufSize})
    \/ AddTaskWith("J1", MaxWaitOps, {"inc"}, {<<List(<<"D1">>)>>})
    \/ WaitForTasksFinish("J1", MaxWaitOps)

SpecWait == Init /\ [][NextWait]_vars

\* C25: a successful waitForTasksFinish leaves the unguarded-access map empty and
\* appends one global barrier whose source stage and source access include the
\* stage and the write access of every entry it dropped that recorded a write.
C25_WaitCoversDroppedAccesses ==
    [][( /\ script'["J1"] # script["J1"]
         /\ lastOp'.op = "waitForTasksFinish" /\ res' = "ok" )
       => LET dropped == jobs["J1"].unguardedResourceAccess
              cmds == jobs'["J1"].commandBuffer
              c == cmds[Len(cmds)]
          IN /\ jobs'["J1"].unguardedResourceAccess = EmptyMap
             /\ Len(cmds) = Len(jobs["J1"].commandBuffer) + 1
             /\ c.cmd = "PipelineBarrier" /\ Len(c.memoryBarriers) = 1
             /\ \A a \in DOMAIN dropped :
                  BitAnd(dropped[a].accessType, Write) # 0
                  => LET src == mapStageAndAccessMask(dropped[a].accessStage, Write)
                     IN /\ src.stage \subseteq c.srcStageMask
                        /\ src.access \subseteq c.memoryBarriers[1].srcAccessMask]_vars

----------------------------------------------------------------------------
(* SpecBarrier: the four manual barriers, recorded among an upload and a   *)
(* download of D1, a useResources and a pushConstants call.                *)

NextBarrier ==
    \/ SyncResourceToDevice("J1", MaxBarrierOps, {"D1"}, {"p"}, {BufSize})
    \/ SyncResourceToHost("J1", MaxBarrierOps, {"D1"}, {"q"}, {BufSize})
    \/ UseResources("J1", MaxBarrierOps, {0}, {List(<<"D1">>)})
    \/ PushConstants("J1", MaxBarrierOps, {1})
    \/ WaitAfterTransfers("J1", MaxBarrierOps)
    \/ WaitBeforeTransfers("J1", MaxBarrierOps)
    \/ AddMemoryBarrier("J1", MaxBarrierOps)
    \/ AddExecutionBarrier("J1", MaxBarrierOps)

SpecBarrier == Init /\ [][NextBarrier]_vars

ManualBarriers == {"waitAfterTransfers", "waitBeforeTransfers", "addMemoryBarrier",
                   "addExecutionBarrier"}

\* C26: a successful waitAfterTransfers, waitBeforeTransfers, addMemoryBarrier or
\* addExecutionBarrier appends exactly one command, a pipeline barrier, to the
\* command buffer and changes nothing else of the job: the unguarded-access map,
\* the pending bindings, the pending constants and both transfer lists stay as
\* they were.
C26_ManualBarrierFrame ==
    [][( /\ script'["J1"] # script["J1"]
         /\ lastOp'.op \in ManualBarriers /\ res' = "ok" )
       => LET cmds == jobs'["J1"].commandBuffer
          IN /\ Len(cmds) = Len(jobs["J1"].commandBuffer) + 1
             /\ SubSeq(cmds, 1, Len(cmds) - 1) = jobs["J1"].commandBuffer
             /\ cmds[Len(cmds)].cmd = "PipelineBarrier"
             /\ jobs'["J1"] = [jobs["J1"] EXCEPT !.commandBuffer = cmds]]_vars

\* a manual barrier recorded after an upload and a useResources call: the map, the
\* pending bindings and the pre-execution list are non-empty when the barrier is
\* recorded
C26_Witness ==
    /\ lastOp.op \in ManualBarriers /\ res = "ok"
    /\ Len(script["J1"]) = 3
    /\ jobs["J1"].unguardedResourceAccess # EmptyMap
    /\ jobs["J1"].pendingBindings # EmptyMap
    /\ Len(jobs["J1"].preExecutionTransfers) = 1
    /\ jobs["J1"].commandBuffer[Len(jobs["J1"].commandBuffer)].cmd = "PipelineBarrier"

----------------------------------------------------------------------------
(* Replacement of pending bindings, checked under SpecBind *)

\* the resources of the latest useResources call for set index i in the script sc
LastUseFor(sc, i) ==
    LET uses == {k \in 1..Len(sc) : sc[k].op = "useResources" /\ sc[k].index = i}
    IN sc[CHOOSE k \in uses : \A n \in uses : n <= k].resources

\* C27: useResources(i, r) makes r the pending binding of set index i, replacing
\* an earlier one, and leaves the pending bindings of all other indices and the
\* command buffer as they were; the descriptor sets a successful addTask binds at
\* index i are those of the latest useResources call for i.
C27_LastUseWins ==
    [][/\ ( /\ script'["J1"] # script["J1"]
            /\ lastOp'.op = "useResources" /\ res' = "ok" )
          => LET old == jobs["J1"].pendingBindings
                 new == jobs'["J1"].pendingBindings
             IN /\ DOMAIN new = DOMAIN old \cup {lastOp'.index}
                /\ new[lastOp'.index] = lastOp'.resources
                /\ \A i \in DOMAIN old \ {lastOp'.index} : new[i] = old[i]
                /\ jobs'["J1"].commandBuffer = jobs["J1"].commandBuffer
       /\ ( /\ script'["J1"] # script["J1"]
            /\ lastOp'.op = "addTask" /\ res' = "ok" )
          => LET cmds == jobs'["J1"].commandBuffer
             IN \A k \in BindsAfter(cmds, Len(jobs["J1"].commandBuffer)) :
                  \A i \in 1..Len(cmds[k].descriptorSets) :
                     cmds[k].descriptorSets[i].resources
                       = LastUseFor(script["J1"], cmds[k].firstSet + i - 1).resources]_vars

\* set 0 was given D1, then D2, and set 1 was given D1 in between; the dispatch
\* bound D2 at set 0 and D1 at set 1
C27_Witness ==
    /\ Len(script["J1"]) = 4
    /\ script["J1"][1] = [job |-> "J1", op |-> "useResources", index |-> 0,
                          resources |-> List(<<"D1">>)]
    /\ script["J1"][2] = [job |-> "J1", op |-> "useResources", index |-> 1,
                          resources |-> List(<<"D1">>)]
    /\ script["J1"][3] = [job |-> "J1", op |-> "useResources", index |-> 0,
                          resources |-> List(<<"D2">>)]
    /\ script["J1"][4].op = "addTask" /\ res = "ok"
    /\ LET cmds == jobs["J1"].commandBuffer
       IN \E k \in BindsAfter(cmds, 0) :
             /\ cmds[k].firstSet = 0 /\ Len(cmds[k].descriptorSets) = 2
             /\ cmds[k].descriptorSets[1].resources = <<"D2">>
             /\ cmds[k].descriptorSets[2].resources = <<"D1">>

----------------------------------------------------------------------------
(* SpecPush: bindings and push-constant blobs of one or two bytes are set, *)
(* and tasks with a one-byte push-constant block (inc) or none (rd) are    *)
(* dispatched, in any order.                                               *)

PushSizes == {1, 2}

NextPush ==
    \/ UseResources("J1", MaxPushOps, {0}, {List(<<"D1">>)})
    \/ PushConstants("J1", MaxPushOps, PushSizes)
    \/ AddTask("J1", MaxPushOps, {"inc", "rd"})

SpecPush == Init /\ [][NextPush]_vars

\* the positions in cmds, after the first from commands, of the commands named cmd
CommandsAfter(cmds, from, cmd) == { k \in (from + 1)..Len(cmds) : cmds[k].cmd = cmd }

\* C28: a successful addTask leaves pending bindings and pending constants empty;
\* it records a push-constants command only if a blob was pending, and then one,
\* and descriptor-set binds only if bindings were pending; so an addTask that
\* directly follows a successful addTask records neither.
C28_PendingEmittedOnce ==
    [][( /\ script'["J1"] # script["J1"]
         /\ lastOp'.op = "addTask" /\ res' = "ok" )
       => LET cmds == jobs'["J1"].commandBuffer
              from == Len(jobs["J1"].commandBuffer)
              pushes == CommandsAfter(cmds, from, "PushConstants")
              binds == CommandsAfter(cmds, from, "BindDescriptorSets")
          IN /\ jobs'["J1"].pendingBindings = EmptyMap
             /\ ~jobs'["J1"].pendingConstants.present
             /\ Cardinality(pushes) = IF jobs["J1"].pendingConstants.present THEN 1 ELSE 0
             /\ (jobs["J1"].pendingBindings = EmptyMap) => binds = {}
             /\ (lastOp.op = "addTask" /\ res = "ok") => (pushes = {} /\ binds = {})]_vars

\* bindings and constants were set and two tasks dispatched one after the other:
\* the first dispatch recorded the bind and the push-constants command, the
\* second only its pipeline bind and its dispatch
C28_Witness ==
    /\ Len(script["J1"]) = 4
    /\ script["J1"][1].op = "useResources"
    /\ script["J1"][2].op = "pushConstants"
    /\ script["J1"][3].op = "addTask"
    /\ script["J1"][4].op = "addTask" /\ res = "ok"
    /\ LET cmds == jobs["J1"].commandBuffer
       IN /\ Len(cmds) = 6
          /\ Cardinality(CommandsAfter(cmds, 0, "PushConstants")) = 1
          /\ Cardinality(CommandsAfter(cmds, 0, "BindDescriptorSets")) = 1
          /\ cmds[5].cmd = "BindPipeline" /\ cmds[6].cmd = "Dispatch"

\* C29 as stated: the push-constants command a successful addTask records has the
\* task's reflected push-constant block size, whatever size pushConstants was given.
C29_PushSizeIsReflectedSize ==
    [][( /\ script'["J1"] # script["J1"]
         /\ lastOp'.op = "addTask" /\ res' = "ok"
         /\ jobs["J1"].pendingConstants.present )
       => LET cmds == jobs'["J1"].commandBuffer
          IN \A k \in CommandsAfter(cmds, Len(jobs["J1"].commandBuffer), "PushConstants") :
                cmds[k].size = TaskPushSize(lastOp'.task)]_vars

\* C29: when a push-constant blob is pending, a successful addTask records exactly
\* one push-constants command, between the pipeline bind and the dispatch, at
\* offset 0 for the compute stage, whose size is the size given to the latest
\* pushConstants call.
C29_PushSizeIsCallersSize ==
    [][( /\ script'["J1"] # script["J1"]
         /\ lastOp'.op = "addTask" /\ res' = "ok"
         /\ jobs["J1"].pendingConstants.present )
       => LET cmds == jobs'["J1"].commandBuffer
              from == Len(jobs["J1"].commandBuffer)
              pushes == CommandsAfter(cmds, from, "PushConstants")
              calls == {k \in 1..Len(script["J1"]) : script["J1"][k].op = "pushConstants"}
              latest == CHOOSE k \in calls : \A n \in calls : n <= k
          IN /\ Cardinality(pushes) = 1
             /\ \A k \in pushes :
                  /\ cmds[k].offset = 0 /\ cmds[k].stage = "COMPUTE"
                  /\ cmds[k].size = script["J1"][latest].size
                  /\ cmds[k].size = jobs["J1"].pendingConstants.size
                  /\ \E b \in CommandsAfter(cmds, from, "BindPipeline") : b < k
                  /\ k < Len(cmds) /\ cmds[Len(cmds)].cmd = "Dispatch"]_vars

\* a blob of two bytes was pushed for the task inc, whose block has one byte: the
\* dispatch recorded a push-constants command of two bytes
C29_Witness ==
    /\ Len(script["J1"]) = 2
    /\ script["J1"][1] = [job |-> "J1", op |-> "pushConstants", size |-> 2]
    /\ script["J1"][2].op = "addTask" /\ script["J1"][2].task = "inc" /\ res = "ok"
    /\ TaskPushSize("inc") = 1
    /\ \E k \in CommandsAfter(jobs["J1"].commandBuffer, 0, "PushConstants") :
          jobs["J1"].commandBuffer[k].size = 2

----------------------------------------------------------------------------
(* SpecHostVisible: uploads and downloads of a Staging and of a Uniform    *)
(* buffer, among uploads of the DeviceLocal buffer D1, the tracker on.     *)

HostVisibleBuffers == StagingBuffers \cup UniformBuffers

NextHostVisible ==
    \/ SyncResourceToDevice("J1", MaxHostVisibleOps, {"S1", "U1", "D1"}, {"p"},
                            {1, BufSize + 1})
    \/ SyncResourceToHost("J1", MaxHostVisibleOps, {"S1", "U1"}, {"q"}, {1, BufSize})

SpecHostVisible == Init /\ [][NextHostVisible]_vars

\* C30: a successful syncResourceToDevice (syncResourceToHost) on a Staging or
\* Uniform buffer appends one entry, naming the buffer itself, to the
\* pre-execution (post-execution) transfer list, an upload with at most the
\* buffer's size, and changes nothing else of the job: no command is recorded and
\* the unguarded-access map stays as it was.
C30_HostVisibleSyncOnlyQueues ==
    [][( /\ script'["J1"] # script["J1"]
         /\ lastOp'.op \in {"syncResourceToDevice", "syncResourceToHost"}
         /\ lastOp'.resource \in HostVisibleBuffers /\ res' = "ok" )
       => LET J == jobs["J1"]
              R == Resource(lastOp'.resource)
          IN jobs'["J1"] =
                IF lastOp'.op = "syncResourceToDevice"
                THEN [J EXCEPT !.preExecutionTransfers =
                         Append(@, TransferInfo(R.handle, Min(lastOp'.size, R.size),
                                                lastOp'.data))]
                ELSE [J EXCEPT !.postExecutionTransfers =
                         Append(@, TransferInfo(R.handle, lastOp'.size, lastOp'.data))]]_vars

\* after an upload of D1 has put a command in the buffer and an entry in the map,
\* a Uniform buffer was uploaded and a Staging buffer downloaded
C30_Witness ==
    /\ Len(script["J1"]) = 3
    /\ script["J1"][1].op = "syncResourceToDevice" /\ script["J1"][1].resource = "D1"
    /\ script["J1"][2].op = "syncResourceToDevice" /\ script["J1"][2].resource = "U1"
    /\ script["J1"][3].op = "syncResourceToHost" /\ script["J1"][3].resource = "S1"
    /\ res = "ok"
    /\ Len(jobs["J1"].commandBuffer) = 1
    /\ DOMAIN jobs["J1"].unguardedResourceAccess = {"D1"}
    /\ Len(jobs["J1"].preExecutionTransfers) = 2
    /\ Len(jobs["J1"].postExecutionTransfers) = 1

----------------------------------------------------------------------------
(* SpecMixed: uploads of the buffer D1 and of the image I1, and copies     *)
(* between buffers, between images, and between a buffer and an image.     *)

MixedPairs == {<<"D1", "I1">>, <<"I1", "D1">>}

NextMixed ==
    \/ SyncResourceToDevice("J1", MaxMixedOps, {"D1"}, {"p"}, {BufSize})
    \/ SyncResourceToDevice("J1", MaxMixedOps, {"I1"}, {"p", NULL}, {ImageBytes})
    \/ SyncResources("J1", MaxMixedOps, MixedPairs \cup {<<"D1", "D2">>, <<"I1", "I2">>})

SpecMixed == Init /\ [][NextMixed]_vars

\* C31: syncResources with one buffer and one image, in either direction, fails
\* with UnsupportedSync and changes neither the job (command buffer, transfer
\* lists, unguarded-access map) nor any image layout.
C31_MixedSyncRefused ==
    [][( /\ script'["J1"] # script["J1"]
         /\ lastOp'.op = "syncResources"
         /\ <<lastOp'.src, lastOp'.dst>> \in MixedPairs )
       => /\ res' = "UnsupportedSync"
          /\ jobs' = jobs
          /\ layout' = layout]_vars

\* a copy from the image to the buffer was refused after both had been uploaded:
\* the command buffer and the map hold what the uploads left
C31_Witness ==
    /\ Len(script["J1"]) = 3
    /\ lastOp.op = "syncResources" /\ lastOp.src = "I1" /\ lastOp.dst = "D1"
    /\ res = "UnsupportedSync"
    /\ layout["I1"] = "GENERAL"
    /\ "D1" \in DOMAIN jobs["J1"].unguardedResourceAccess
    /\ Len(jobs["J1"].commandBuffer) = 4

----------------------------------------------------------------------------
(* SpecDup: the buffer D1 is bound at both bindings of a task, copied onto *)
(* itself, uploaded, and bound to a task that does not access it.          *)

NextDup ==
    \/ SyncResourceToDevice("J1", MaxDupOps, {"D1"}, {"p"}, {BufSize})
    \/ SyncResources("J1", MaxDupOps, {<<"D1", "D1">>})
    \/ AddTaskWith("J1", MaxDupOps, {"sum"}, {<<List(<<"D1", "D1">>)>>})
    \/ AddTaskWith("J1", MaxDupOps, {"unused"}, {<<List(<<"D1">>)>>})

SpecDup == Init /\ [][NextDup]_vars

\* the resource a appears more than once among the resources of the call
NamedTwice(call, a) ==
    CASE call.op = "syncResources" -> call.src = a /\ call.dst = a
      [] call.op = "addTask" ->
            \E s \in 1..Len(call.resources) :
               Cardinality({b \in 1..Len(call.resources[s].resources) :
                               call.resources[s].resources[b] = a}) > 1
      [] OTHER -> FALSE

\* the buffer barriers for buffer a among the commands after the first from
BarriersFor(cmds, from, a) ==
    { <<k, i>> \in ((from + 1)..Len(cmds)) \X (1..MaxBindings) :
        /\ cmds[k].cmd = "PipelineBarrier"
        /\ i <= Len(cmds[k].bufferBarriers)
        /\ cmds[k].bufferBarriers[i].buffer = Resource(a).handle }

\* C32: when a successful operation names buffer a more than once, at most one
\* buffer barrier for a is recorded and the tracker's entry for a afterwards holds
\* the bitwise OR of the accesses the operation asked for.
C32_DuplicatesOred ==
    [][( /\ script'["J1"] # script["J1"] /\ res' = "ok"
         /\ NamedTwice(lastOp', "D1") )
       => /\ Cardinality(BarriersFor(jobs'["J1"].commandBuffer,
                                     Len(jobs["J1"].commandBuffer), "D1")) <= 1
          /\ "D1" \in DOMAIN jobs'["J1"].unguardedResourceAccess
          /\ jobs'["J1"].unguardedResourceAccess["D1"].accessType
               = CallAccess(lastOp', "D1")]_vars

----------------------------------------------------------------------------
(* SpecStages: the buffers D1 and D2 are uploaded, written by tasks, read  *)
(* and written together by one task and copied onto each other, so that   *)
(* one operation can meet a Task-stage and a Transfer-stage access.        *)

NextStages ==
    \/ SyncResourceToDevice("J1", MaxStageOps, {"D1"}, {"p"}, {BufSize})
    \/ AddTaskWith("J1", MaxStageOps, {"inc"}, {<<List(<<"D2">>)>>})
    \/ AddTaskWith("J1", MaxStageOps, {"sum"}, {<<List(<<"D1", "D2">>)>>})
    \/ SyncResources("J1", MaxStageOps, {<<"D1", "D2">>, <<"D2", "D1">>})

SpecStages == Init /\ [][NextStages]_vars

\* the buffers for which the call needs a barrier, given the tracker map before it
NeedsBarrier(unguarded, call) ==
    { a \in {"D1", "D2"} :
        /\ a \in DOMAIN unguarded
        /\ ~SkipsResource(unguarded[a], CallAccess(call, a)) }

\* C33: a successful tracked operation records at most two pipeline barriers, at
\* most one with source stage ComputeShader and at most one with source stage
\* Transfer, the ComputeShader one first; the first holds exactly the buffer
\* barriers of the buffers last accessed at stage Task, the second those last
\* accessed at stage Transfer; each has the stage of the new operation as its
\* destination stage and comes before the operation's own commands.
C33_TwoBarriersPerOperation ==
    [][( /\ script'["J1"] # script["J1"] /\ res' = "ok" )
       => LET cmds == jobs'["J1"].commandBuffer
              from == Len(jobs["J1"].commandBuffer)
              old == jobs["J1"].unguardedResourceAccess
              bars == CommandsAfter(cmds, from, "PipelineBarrier")
              need == NeedsBarrier(old, lastOp')
              held(k) == {cmds[k].bufferBarriers[i].buffer :
                             i \in 1..Len(cmds[k].bufferBarriers)}
          IN /\ Cardinality(bars) <= 2
             /\ \A k \in bars :
                  /\ cmds[k].srcStageMask \in {{"COMPUTE_SHADER"}, {"TRANSFER"}}
                  /\ cmds[k].dstStageMask = mapStage(CallStage(lastOp'))
                  /\ cmds[k].memoryBarriers = <<>> /\ cmds[k].imageBarriers = <<>>
                  /\ Len(cmds[k].bufferBarriers) = Cardinality(held(k))
                  /\ held(k) = {a \in need : mapStage(old[a].accessStage) = cmds[k].srcStageMask}
                  /\ \A n \in (from + 1)..Len(cmds) : n < k => n \in bars
             /\ \A k1, k2 \in bars :
                  k1 < k2 => ( cmds[k1].srcStageMask = {"COMPUTE_SHADER"}
                               /\ cmds[k2].srcStageMask = {"TRANSFER"} )
             /\ \A a \in need : \E k \in bars : a \in held(k)
             /\ Len(cmds) > from /\ cmds[Len(cmds)].cmd \in {"CopyBuffer", "Dispatch"}]_vars

\* D1 was uploaded and D2 written by a task; the task that reads D1 and writes D2
\* recorded a ComputeShader barrier for D2 and a Transfer barrier for D1, in that
\* order, before its pipeline bind
C33_Witness ==
    /\ Len(script["J1"]) = 3 /\ res = "ok"
    /\ script["J1"][3].op = "addTask" /\ script["J1"][3].task = "sum"
    /\ LET cmds == jobs["J1"].commandBuffer
       IN \E k \in 1..(Len(cmds) - 2) :
            /\ cmds[k].cmd = "PipelineBarrier" /\ cmds[k].srcStageMask = {"COMPUTE_SHADER"}
            /\ cmds[k].bufferBarriers[1].buffer = "D2"
            /\ cmds[k + 1].cmd = "PipelineBarrier" /\ cmds[k + 1].srcStageMask = {"TRANSFER"}
            /\ cmds[k + 1].bufferBarriers[1].buffer = "D1"
            /\ cmds[k + 2].cmd = "BindPipeline"

----------------------------------------------------------------------------
(* SpecTwoJobs: two jobs record uploads and downloads of the same buffer,  *)
(* tasks that write it and pending bindings of it, interleaved in any      *)
(* order, both with the dependency tracker on.                             *)

NextTwoJobs ==
    \E j \in JobIds :
        \/ SyncResourceToDevice(j, MaxTwoJobOps, {"D1"}, {"p"}, {BufSize})
        \/ SyncResourceToHost(j, MaxTwoJobOps, {"D1"}, {"q"}, {BufSize})
        \/ AddTaskWith(j, MaxTwoJobOps, {"inc"}, {<<List(<<"D1">>)>>})
        \/ UseResources(j, MaxTwoJobOps, {0}, {List(<<"D1">>)})

SpecTwoJobs == Init /\ [][NextTwoJobs]_vars

\* C34: a recording operation on one job leaves every other job as it was: its
\* unguarded-access map, pending bindings, transfer lists and command buffer do
\* not change, also when both jobs use the same buffer.
C34_JobsAreIndependent ==
    [][\A a, b \in JobIds :
         (a # b /\ script'[a] # script[a])
         => /\ jobs'[b].unguardedResourceAccess = jobs[b].unguardedResourceAccess
            /\ jobs'[b].pendingBindings = jobs[b].pendingBindings
            /\ jobs'[b].preExecutionTransfers = jobs[b].preExecutionTransfers
            /\ jobs'[b].postExecutionTransfers = jobs[b].postExecutionTransfers
            /\ jobs'[b].commandBuffer = jobs[b].commandBuffer
            /\ script'[b] = script[b]]_vars

\* job J1 uploaded D1 and job J2 then dispatched a task writing D1: J2 recorded no
\* barrier, having no entry of its own for D1, and J1's entry is the upload's
C34_Witness ==
    /\ Len(script["J1"]) = 1 /\ script["J1"][1].op = "syncResourceToDevice"
    /\ Len(script["J2"]) = 1 /\ script["J2"][1].op = "addTask"
    /\ lastOp.job = "J2" /\ res = "ok"
    /\ jobs["J1"].unguardedResourceAccess["D1"] = TrackedAccess(Write, "Transfer")
    /\ jobs["J2"].unguardedResourceAccess["D1"] = TrackedAccess(BitOr(Read, Write), "Task")
    /\ CommandsAfter(jobs["J2"].commandBuffer, 0, "PipelineBarrier") = {}
    /\ Len(jobs["J1"].commandBuffer) = 1

----------------------------------------------------------------------------
(* SpecTeardown: a manager with two jobs creates a buffer, an image, tasks   *)
(* and resource sets, a job creates its signal semaphore, cleanupResources   *)
(* is called any number of times, and the destructor runs cleanupVulkan.     *)
(* The buffers and images destroyed by cleanupResources keep their ids:      *)
(* no id is created twice.                                                   *)

InitTeardown ==
    /\ jobs = [j \in JobIds |-> NewJob]
    /\ layout = EmptyMap
    /\ deviceLayout = EmptyMap
    /\ manager = ManagerOf(<<>>, JobIds, <<>>)
    /\ mem = EmptyMap
    /\ host \in {h \in [HostVars -> Payloads] : h["p"] \in Inputs /\ h["q"] = Zeros(BufSize)}
    /\ inFlight = {}
    /\ lastOp = [job |-> NULL, op |-> "init"]
    /\ res = "ok"
    /\ trace = <<>>
    /\ script = [j \in JobIds |-> <<>>]

CreateTask(lim, Paths) ==
    /\ manager.nCreated < lim
    /\ \E shaderPath \in Paths :
         /\ manager' = createTask(manager, shaderPath)
         /\ lastOp' = [job |-> NULL, op |-> "createTask", path |-> shaderPath]
    /\ res' = "ok"
    /\ trace' = <<>>
    /\ UNCHANGED <<jobs, layout, deviceLayout, mem, host, inFlight, script>>

CreateResourceSet(lim) ==
    /\ manager.nCreated < lim
    /\ manager' = createResourceSet(manager)
    /\ lastOp' = [job |-> NULL, op |-> "createResourceSet"]
    /\ res' = "ok"
    /\ trace' = <<>>
    /\ UNCHANGED <<jobs, layout, deviceLayout, mem, host, inFlight, script>>

CleanupResources ==
    LET out == cleanupResources(manager)
    IN /\ manager' = out.manager
       /\ trace' = out.calls
       /\ lastOp' = [job |-> NULL, op |-> "cleanupResources"]
       /\ res' = "ok"
       /\ UNCHANGED <<jobs, layout, deviceLayout, mem, host, inFlight, script>>

\* JobManager::~JobManager
CleanupVulkan ==
    LET out == cleanupVulkan(manager)
    IN /\ manager' = out.manager
       /\ trace' = out.calls
       /\ lastOp' = [job |-> NULL, op |-> "cleanupVulkan"]
       /\ res' = "ok"
       /\ UNCHANGED <<jobs, layout, deviceLayout, mem, host, inFlight, script>>

\* the destructor has not run
Alive == \A i \in DOMAIN manager.destroyed : manager.destroyed[i] # manager.commandPool

NextTeardown ==
    /\ Alive
    /\ \/ CreateBuffer({"D1"}, {BufSize}, {"DeviceLocal", "Uniform"})
       \/ CreateImage({"I1"}, {ImgWidth}, {ImgHeight})
       \/ CreateTask(MaxTeardownOps, {"inc", "sum"})
       \/ CreateResourceSet(MaxTeardownOps)
       \/ (manager.fences # <<>> /\ Submit("J1", {TRUE}, {TRUE}))
       \/ CleanupResources
       \/ CleanupVulkan

SpecTeardown == InitTeardown /\ [][NextTeardown]_vars

KindOrder ==
    << "fence", "semaphore", "buffer", "imageView", "image", "memory", "pipeline",
       "pipelineLayout", "descriptorSetLayout", "descriptorPool", "commandPool",
       "shaderModule" >>

Rank(kind) == CHOOSE i \in DOMAIN KindOrder : KindOrder[i] = kind

InFixedOrder(calls) ==
    \A i, k \in DOMAIN calls : i < k => Rank(calls[i].kind) <= Rank(calls[k].kind)

Times(calls, h) == Cardinality({i \in DOMAIN calls : calls[i] = h})

\* every handle the manager holds: the lists, the two pools and the shader cache
AllHandles(M) ==
    {TrackedHandles(M)[i] : i \in DOMAIN TrackedHandles(M)}
        \cup {M.descriptorPool, M.commandPool}
        \cup {M.shaderModules[p] : p \in DOMAIN M.shaderModules}

\* C35: the teardown destroys the handles kind by kind in the order fences, semaphores,
\* buffers, image views, images, memory regions, pipelines, pipeline layouts,
\* descriptor-set layouts, descriptor pool, command pool, shader modules; it destroys
\* each handle the manager holds exactly once and nothing else; and over the whole
\* life of the manager, calls of cleanupResources included, no handle is destroyed twice
C35_TeardownOrderAndOnce ==
    [][ lastOp'.op = "cleanupVulkan" =>
          /\ InFixedOrder(trace')
          /\ \A h \in AllHandles(manager) : Times(trace', h) = 1
          /\ Len(trace') = Cardinality(AllHandles(manager))
          /\ \A i \in DOMAIN manager'.destroyed : Times(manager'.destroyed, manager'.destroyed[i]) = 1
          /\ TrackedHandles(manager') = <<>>
          /\ manager'.shaderModules = EmptyMap ]_vars

\* the destructor runs after cleanupResources destroyed a pipeline, with a buffer
\* created since and the shader module of the pipeline still cached
C35_Witness ==
    /\ lastOp.op = "cleanupVulkan"
    /\ Len(manager.destroyed) > Len(trace)
    /\ \E i \in DOMAIN manager.destroyed :
         /\ manager.destroyed[i].kind = "pipeline"
         /\ Times(trace, manager.destroyed[i]) = 0
    /\ \E i \in DOMAIN trace : trace[i].kind = "buffer"
    /\ \E i \in DOMAIN trace : trace[i].kind = "shaderModule"

----------------------------------------------------------------------------
(* SpecAwait: a job records uploads and downloads, is submitted, executed    *)
(* and awaited in any order, while the host stores new values in the array   *)
(* the downloads name as destination.                                        *)

NextAwait ==
    \/ SyncResourceToDevice("J1", MaxAwaitOps, {"D1", "S1"}, {"p"}, {BufSize})
    \/ SyncResourceToHost("J1", MaxAwaitOps, {"D1", "S1"}, {"q"}, {BufSize})
    \/ Submit("J1", {FALSE}, BOOLEAN)
    \/ Await("J1", {"VK_SUCCESS", "VK_TIMEOUT"})
    \/ DeviceExecute("J1")
    \/ HostWrite("q")

SpecAwait == Init /\ [][NextAwait]_vars

\* C36: an await of a job that is not submitted (never submitted, already awaited, or
\* whose submit failed) performs no post-execution copy and leaves the host arrays
\* as they are
C36_PostCopiesOnlyOnCompletion ==
    [][ (lastOp'.op = "await" /\ ~jobs[lastOp'.job].isSubmitted)
            => /\ Calls(trace', "copyDataFromHostVisibleMemory") = {}
               /\ host' = host ]_vars

----------------------------------------------------------------------------
(* The fence of a job that is not submitted, checked under Spec *)

\* C37: in every reachable state, a job created by the manager that is not submitted
\* has a signaled fence, so that await and isComplete return true at once
C37_IdleFenceSignaled ==
    \A j \in JobIds :
        (jobs[j].fence # NULL /\ ~jobs[j].isSubmitted) => jobs[j].fence = "signaled"

----------------------------------------------------------------------------
(* SpecShadow: one job records several uploads to D1 from different host     *)
(* arrays, copies between D1 and D2 and downloads of D1 into different host  *)
(* arrays, and is then submitted, executed and awaited once.                 *)

NextShadow ==
    \/ Recording("J1") /\ SyncResourceToDevice("J1", MaxShadowOps, {"D1"}, {"p", "q"}, {BufSize})
    \/ Recording("J1") /\ SyncResources("J1", MaxShadowOps, {<<"D1", "D2">>, <<"D2", "D1">>})
    \/ Recording("J1") /\ SyncResourceToHost("J1", MaxShadowOps, {"D1"}, {"p", "q"}, {BufSize})
    \/ Submit("J1", {FALSE}, {TRUE})
    \/ DeviceExecute("J1")
    \/ Await("J1", {"VK_SUCCESS"})

SpecShadow == Init /\ [][NextShadow]_vars

\* What the recorded calls sc ask for, from call k on: every upload delivers the host
\* array of its own call (H, as the host left it at submit), every copy and download
\* sees the resource as the calls before it left it.  st is [mem, host].
RECURSIVE OwnData(_, _, _, _)
OwnData(sc, k, H, st) ==
    IF k > Len(sc) THEN st
    ELSE LET c == sc[k]
         IN OwnData(sc, k + 1, H,
              IF c.op = "syncResourceToDevice"
              THEN [st EXCEPT !.mem[c.resource] = Memcpy(@, H[c.data], c.size)]
              ELSE IF c.op = "syncResources"
              THEN [st EXCEPT !.mem[c.dst] = st.mem[c.src]]
              ELSE [st EXCEPT !.host[c.data] = Memcpy(@, st.mem[c.resource], c.size)])

\* no upload is recorded after a download: the staging shadow is never asked to
\* carry an upload and an earlier download at once
UploadsFirst(sc) ==
    \A i, k \in DOMAIN sc :
        i < k => ~(sc[i].op = "syncResourceToHost" /\ sc[k].op = "syncResourceToDevice")

\* C38: when the first successful await of a job returns, the buffers and the host
\* arrays hold what the recorded calls ask for when every upload delivers the data of
\* its own call and every download the contents as of its own recording point
C38_EachTransferOwnData ==
    [][ (lastOp'.op = "await" /\ res' = "true" /\ jobs["J1"].isSubmitted
            /\ jobs["J1"].nSubmit = 1 /\ "J1" \notin inFlight
            /\ UploadsFirst(script["J1"]))
        => LET asked == OwnData(script["J1"], 1, host,
                                [mem |-> [m \in MemIds |-> Zeros(MemSize(m))], host |-> host])
           IN /\ \A b \in {"D1", "D2"} : mem[b] = asked.mem[b]
              /\ host' = asked.host ]_vars

----------------------------------------------------------------------------
(* Barriers between a write and the accesses before it, checked under        *)
(* SpecTrack: every call of SpecTrack succeeds and records one copy or one   *)
(* dispatch, preceded by the barriers and binds it needs.                    *)

\* the positions of the copies and dispatches in cmds
OwnCommands(cmds) == { k \in DOMAIN cmds : cmds[k].cmd \in {"CopyBuffer", "Dispatch"} }

\* the position in cmds of the copy or dispatch recorded by the i-th call
OwnCommand(cmds, i) ==
    CHOOSE k \in OwnCommands(cmds) : Cardinality({x \in OwnCommands(cmds) : x <= k}) = i

\* C39: when a recorded operation writes buffer a, every earlier recorded access to a
\* is separated from the write by a pipeline barrier, recorded between the two,
\* whose source stage includes the stage of that access
C39_WriteAfterEveryAccess ==
    [][( /\ script'["J1"] # script["J1"] /\ res' = "ok"
         /\ jobs["J1"].autoDataDependencyManagement )
       => LET sc == script'["J1"]
              cmds == jobs'["J1"].commandBuffer
              n == Len(sc)
          IN \A a \in {"D1", "D2"} :
               BitAnd(CallAccess(sc[n], a), Write) # 0
               => \A i \in 1..(n - 1) :
                    CallAccess(sc[i], a) # None
                    => \E k \in (OwnCommand(cmds, i) + 1)..(OwnCommand(cmds, n) - 1) :
                         /\ cmds[k].cmd = "PipelineBarrier"
                         /\ mapStage(CallStage(sc[i])) \subseteq cmds[k].srcStageMask ]_vars

----------------------------------------------------------------------------
(* The tracked layout of the images a dispatch binds, checked under          *)
(* SpecImage.  transitionImageLayout is private to Job: the layout of an     *)
(* image changes only inside syncResourceToDevice, syncResourceToHost and    *)
(* syncResources.                                                            *)

\* some call of sc changed the layout of image r: an upload without data, an upload or
\* a download that passed its size test
Prepared(sc, r) ==
    \E i \in DOMAIN sc :
        \/ /\ sc[i].op = "syncResourceToDevice" /\ sc[i].resource = r
           /\ (sc[i].data = NULL \/ sc[i].size = Resource(r).size)
        \/ /\ sc[i].op = "syncResourceToHost" /\ sc[i].resource = r
           /\ sc[i].size >= Resource(r).size

====
